---- MODULE Spec2Model ----
(***************************************************************************)
(* Real-time scam-risk scoring of call transcripts.                        *)
(*                                                                         *)
(* SegmentBuffer, AdvancedScamDetector (app/detector/                      *)
(* advanced_scam_detector.py) and the two ensemble detectors that sit on   *)
(* top of it.                                                              *)
(*                                                                         *)
(* Conventions                                                             *)
(*  - a Python str is a sequence of one-character strings; "" is <<>>;     *)
(*  - an Optional[str] is a record [some, text]; None is None_;            *)
(*  - a risk value is an integer number of thousandths (0.4 is 400);       *)
(*  - time.time() is the variable now, in whole seconds; a handler runs    *)
(*    in-memory and reads the same clock value at each of its reads.       *)
(***************************************************************************)
EXTENDS Integers, Sequences, FiniteSets, TLC

(***************************************************************************)
(* Python string primitives used by the source                             *)
(***************************************************************************)
IsSpace(c) == c \in {" ", "\t", "\n"}

\* position of the first whitespace character at or after from; Len(s) + 1
\* when there is none
FirstSpace(s, from) ==
    IF \E i \in from..Len(s) : IsSpace(s[i])
    THEN CHOOSE i \in from..Len(s) :
            IsSpace(s[i]) /\ \A j \in from..(i - 1) : ~IsSpace(s[j])
    ELSE Len(s) + 1

FirstNonSpace(s, from) ==
    IF \E i \in from..Len(s) : ~IsSpace(s[i])
    THEN CHOOSE i \in from..Len(s) :
            ~IsSpace(s[i]) /\ \A j \in from..(i - 1) : IsSpace(s[j])
    ELSE Len(s) + 1

\* position of the last non-whitespace character, 0 when there is none
LastNonSpace(s) ==
    IF \E i \in 1..Len(s) : ~IsSpace(s[i])
    THEN CHOOSE i \in 1..Len(s) :
            ~IsSpace(s[i]) /\ \A j \in (i + 1)..Len(s) : IsSpace(s[j])
    ELSE 0

LStrip(s) == SubSeq(s, FirstNonSpace(s, 1), Len(s))

RStrip(s) == SubSeq(s, 1, LastNonSpace(s))

Strip(s) == RStrip(LStrip(s))

UpperCase == <<"A","B","C","D","E","F","G","H","I","J","K","L","M",
               "N","O","P","Q","R","S","T","U","V","W","X","Y","Z">>

LowerCase == <<"a","b","c","d","e","f","g","h","i","j","k","l","m",
               "n","o","p","q","r","s","t","u","v","w","x","y","z">>

LowerChar(c) ==
    IF \E i \in 1..Len(UpperCase) : UpperCase[i] = c
    THEN LowerCase[CHOOSE i \in 1..Len(UpperCase) : UpperCase[i] = c]
    ELSE c

Lower(s) == [i \in 1..Len(s) |-> LowerChar(s[i])]

\* re.sub(r'\s+', ' ', s), from position i on: every maximal run of
\* whitespace becomes one space
RECURSIVE CollapseFrom(_, _)
CollapseFrom(s, i) ==
    LET sp == FirstSpace(s, i)
    IN  IF sp > Len(s) THEN SubSeq(s, i, Len(s))
        ELSE SubSeq(s, i, sp - 1) \o <<" ">> \o CollapseFrom(s, FirstNonSpace(s, sp))

CollapseWs(s) == CollapseFrom(s, 1)

MatchAt(s, pat, i) ==
    i + Len(pat) - 1 <= Len(s) /\ s[i] = pat[1] /\ SubSeq(s, i, i + Len(pat) - 1) = pat

\* position of the first occurrence of pat at or after from; Len(s) + 1 when
\* there is none
FirstMatch(s, pat, from) ==
    IF \E i \in from..Len(s) : MatchAt(s, pat, i)
    THEN CHOOSE i \in from..Len(s) :
            MatchAt(s, pat, i) /\ \A j \in from..(i - 1) : ~MatchAt(s, pat, j)
    ELSE Len(s) + 1

\* s.replace(pat, rep): non-overlapping occurrences, left to right
RECURSIVE ReplaceFrom(_, _, _, _)
ReplaceFrom(s, pat, rep, i) ==
    LET m == FirstMatch(s, pat, i)
    IN  IF m > Len(s) THEN SubSeq(s, i, Len(s))
        ELSE SubSeq(s, i, m - 1) \o rep \o ReplaceFrom(s, pat, rep, m + Len(pat))

Replace(s, pat, rep) == ReplaceFrom(s, pat, rep, 1)

\* s.split(): the maximal runs of non-whitespace characters
RECURSIVE SplitFrom(_, _)
SplitFrom(s, i) ==
    LET start == FirstNonSpace(s, i)
        end == FirstSpace(s, start)
    IN  IF start > Len(s) THEN <<>>
        ELSE <<SubSeq(s, start, end - 1)>> \o SplitFrom(s, end)

Split(s) == SplitFrom(s, 1)

\* ' '.join(ws)
RECURSIVE Join(_)
Join(ws) ==
    IF ws = <<>> THEN <<>>
    ELSE IF Len(ws) = 1 THEN ws[1]
    ELSE ws[1] \o <<" ">> \o Join(Tail(ws))

\* c in s
Contains(s, c) == \E i \in 1..Len(s) : s[i] = c

\* s.rfind(c) as a 1-based position, 0 when c does not occur
RFind(s, c) ==
    IF Contains(s, c)
    THEN CHOOSE i \in 1..Len(s) : s[i] = c /\ \A j \in (i + 1)..Len(s) : s[j] # c
    ELSE 0

\* the value of a one-element set: { f(x) : x \in {e} } computes e once
\* and names its value x, as a local variable of the source does
Only(S) == CHOOSE x \in S : TRUE

None_ == [some |-> FALSE, text |-> <<>>]

Some(t) == [some |-> TRUE, text |-> t]

\* Python truthiness of an Optional[str]: None and "" are both falsy
Truthy(o) == o.some /\ o.text # <<>>

(***************************************************************************)
(* SegmentBuffer                                                           *)
(***************************************************************************)
DefaultMaxBufferTime == 2

DefaultMinSegmentLength == 2

ForceFlushChars == 150

ForceFlushWords == 5

SegmentBuffer ==
    [max_buffer_time    |-> DefaultMaxBufferTime,
     min_segment_length |-> DefaultMinSegmentLength,
     buffer             |-> <<>>,
     last_add_time      |-> 0,
     pending_sentences  |-> <<>>,
     current_sentence   |-> <<>>]

filler_words ==
    << <<"u","m">>, <<"u","h">>, <<"e","r">>, <<"a","h">>, <<"l","i","k","e">>,
       <<"y","o","u"," ","k","n","o","w">>, <<"i"," ","m","e","a","n">> >>

RECURSIVE RemoveFillers(_, _)
RemoveFillers(text, k) ==
    IF k > Len(filler_words) THEN text
    ELSE RemoveFillers(Replace(text, <<" ">> \o filler_words[k] \o <<" ">>, <<" ">>),
                       k + 1)

_clean_text(text) ==
    IF text = <<>> THEN <<>>
    ELSE Strip(RemoveFillers(CollapseWs(Lower(Strip(text))), 1))

sentence_endings == <<".", "!", "?">>

Conjunctions ==
    << <<"a","n","d">>, <<"b","u","t">>, <<"s","o">>, <<"t","h","e","n">>,
       <<"n","o","w">>, <<"w","e","l","l">> >>

Pronouns ==
    << <<"i">>, <<"w","e">>, <<"y","o","u">>, <<"t","h","e","y">>,
       <<"t","h","a","t">>, <<"t","h","i","s">> >>

speech_boundaries ==
    { Conjunctions[i] \o <<" ">> \o Pronouns[j] :
        i \in 1..Len(Conjunctions), j \in 1..Len(Pronouns) }

\* the for-loop over sentence_endings, from the k-th ending on
RECURSIVE PunctuationBoundary(_, _)
PunctuationBoundary(b, k) ==
    IF k > Len(sentence_endings) THEN None_
    ELSE LET ending == sentence_endings[k]
             last_end == RFind(b.current_sentence, ending)
             complete_sentence == Strip(SubSeq(b.current_sentence, 1, last_end))
         IN  IF Contains(b.current_sentence, ending) /\ last_end # 0
                /\ Len(complete_sentence) >= b.min_segment_length
             THEN Some(complete_sentence)
             ELSE PunctuationBoundary(b, k + 1)

\* the for-loop over range(1, len(words)); i is the 0-based Python index
RECURSIVE SpeechBoundary(_, _, _)
SpeechBoundary(b, words, i) ==
    IF i >= Len(words) THEN None_
    ELSE LET phrase == Join(SubSeq(words, i, i + 1))
             complete_sentence == Strip(Join(SubSeq(words, 1, i)))
         IN  IF phrase \in speech_boundaries /\ i >= 3
                /\ Len(complete_sentence) >= b.min_segment_length
             THEN Some(complete_sentence)
             ELSE SpeechBoundary(b, words, i + 1)

_extract_complete_sentence(b) ==
    IF b.current_sentence = <<>> THEN None_
    ELSE LET punct == PunctuationBoundary(b, 1)
         IN  IF punct.some THEN punct
             ELSE SpeechBoundary(b, Split(Lower(b.current_sentence)), 1)

\* _remove_processed_text that shortens current_sentence and keeps the
\* fragments of the buffer
_remove_processed_text_keeping_fragments(b, processed_text, t) ==
    IF processed_text = <<>> \/ b.buffer = <<>> THEN b
    ELSE LET words_to_remove == Len(Split(processed_text))
             current_words == Split(b.current_sentence)
         IN  IF words_to_remove >= Len(current_words)
             THEN [b EXCEPT !.buffer = <<>>, !.current_sentence = <<>>]
             ELSE [b EXCEPT !.current_sentence =
                               Join(SubSeq(current_words, words_to_remove + 1,
                                           Len(current_words)))]

_remove_processed_text(b, processed_text, t) ==
    IF processed_text = <<>> \/ b.buffer = <<>> THEN b
    ELSE LET words_to_remove == Len(Split(processed_text))
             current_words == Split(b.current_sentence)
         IN  IF words_to_remove >= Len(current_words)
             THEN [b EXCEPT !.buffer = <<>>, !.current_sentence = <<>>]
             ELSE LET remaining_text ==
                          Join(SubSeq(current_words, words_to_remove + 1,
                                      Len(current_words)))
                  IN  [b EXCEPT !.buffer = << <<remaining_text, t>> >>,
                                !.current_sentence = remaining_text]

\* _should_force_flush without the word-count condition
_should_force_flush_no_word_count(b, t) ==
    IF b.buffer = <<>> THEN FALSE
    ELSE LET time_since_last == t - b.last_add_time
         IN  \/ time_since_last >= b.max_buffer_time
             \/ Len(b.current_sentence) > ForceFlushChars

\* _should_force_flush with "more than" in place of "at least" on the word count
_should_force_flush_strict_word_count(b, t) ==
    IF b.buffer = <<>> THEN FALSE
    ELSE LET time_since_last == t - b.last_add_time
             word_count == Len(Split(b.current_sentence))
         IN  \/ time_since_last >= b.max_buffer_time
             \/ Len(b.current_sentence) > ForceFlushChars
             \/ word_count > ForceFlushWords

_should_force_flush(b, t) ==
    IF b.buffer = <<>> THEN FALSE
    ELSE LET time_since_last == t - b.last_add_time
             word_count == Len(Split(b.current_sentence))
         IN  \/ time_since_last >= b.max_buffer_time
             \/ Len(b.current_sentence) > ForceFlushChars
             \/ word_count >= ForceFlushWords

\* add_fragment recording the arrival time before the empty-text test
add_fragment_stamping_empty(b, text, t) ==
    Only({
        IF clean_text = <<>> THEN [buf |-> [b EXCEPT !.last_add_time = t], ret |-> None_]
        ELSE Only({
            Only({
                IF Truthy(complete_sentence)
                THEN [buf |-> _remove_processed_text(b2, complete_sentence.text, t),
                      ret |-> complete_sentence]
                ELSE IF _should_force_flush(b2, t) /\ Strip(b2.current_sentence) # <<>>
                THEN [buf |-> [b2 EXCEPT !.buffer = <<>>, !.current_sentence = <<>>],
                      ret |-> Some(Strip(b2.current_sentence))]
                ELSE [buf |-> b2, ret |-> None_]
              : complete_sentence \in {_extract_complete_sentence(b2)} })
          : b2 \in {[b EXCEPT
                       !.buffer = Append(b.buffer, <<clean_text, t>>),
                       !.last_add_time = t,
                       !.current_sentence =
                           Join([k \in 1..Len(b.buffer) + 1 |->
                                    IF k <= Len(b.buffer) THEN b.buffer[k][1]
                                    ELSE clean_text])]} })
      : clean_text \in {_clean_text(text)} })

\* returns the buffer after the call and the returned Optional[str]
add_fragment(b, text, t) ==
    Only({
        IF clean_text = <<>> THEN [buf |-> b, ret |-> None_]
        ELSE Only({
            Only({
                IF Truthy(complete_sentence)
                THEN [buf |-> _remove_processed_text(b2, complete_sentence.text, t),
                      ret |-> complete_sentence]
                ELSE IF _should_force_flush(b2, t) /\ Strip(b2.current_sentence) # <<>>
                THEN [buf |-> [b2 EXCEPT !.buffer = <<>>, !.current_sentence = <<>>],
                      ret |-> Some(Strip(b2.current_sentence))]
                ELSE [buf |-> b2, ret |-> None_]
              : complete_sentence \in {_extract_complete_sentence(b2)} })
          : b2 \in {[b EXCEPT
                       !.buffer = Append(b.buffer, <<clean_text, t>>),
                       !.last_add_time = t,
                       !.current_sentence =
                           Join([k \in 1..Len(b.buffer) + 1 |->
                                    IF k <= Len(b.buffer) THEN b.buffer[k][1]
                                    ELSE clean_text])]} })
      : clean_text \in {_clean_text(text)} })

\* check_timeout without the elapsed-time test
check_timeout_no_elapsed_test(b, t) ==
    IF b.buffer = <<>> THEN [buf |-> b, ret |-> None_]
    ELSE IF Strip(b.current_sentence) # <<>>
    THEN [buf |-> [b EXCEPT !.buffer = <<>>, !.current_sentence = <<>>],
          ret |-> Some(Strip(b.current_sentence))]
    ELSE [buf |-> b, ret |-> None_]

check_timeout(b, t) ==
    IF b.buffer = <<>> THEN [buf |-> b, ret |-> None_]
    ELSE LET time_since_last == t - b.last_add_time
         IN  IF time_since_last >= b.max_buffer_time
                /\ Strip(b.current_sentence) # <<>>
             THEN [buf |-> [b EXCEPT !.buffer = <<>>, !.current_sentence = <<>>],
                   ret |-> Some(Strip(b.current_sentence))]
             ELSE [buf |-> b, ret |-> None_]

(***************************************************************************)
(* Fixed-point arithmetic for the risk values                              *)
(*                                                                         *)
(* A risk is kept in thousandths.  The value the source computes before    *)
(* round(x, 3) has more digits: it is held exactly as a natural number in  *)
(* base-1000 limbs (least significant first), so that the decay product    *)
(* alpha-blend * (1 - decay_rate)^k is never truncated before rounding.    *)
(***************************************************************************)
Scale == 1000

Min(a, b) == IF a < b THEN a ELSE b

Max(a, b) == IF a > b THEN a ELSE b

RECURSIVE MulCarry(_, _, _, _, _)
MulCarry(L, m, i, carry, acc) ==
    IF i > Len(L) THEN (IF carry = 0 THEN acc ELSE Append(acc, carry))
    ELSE LET v == L[i] * m + carry
         IN  MulCarry(L, m, i + 1, v \div Scale, Append(acc, v % Scale))

\* L * m^k
RECURSIVE MulPow(_, _, _)
MulPow(L, m, k) ==
    IF k = 0 THEN L ELSE MulPow(MulCarry(L, m, 1, 0, <<>>), m, k - 1)

Limbs(n) == <<n % Scale, (n \div Scale) % Scale, n \div (Scale * Scale)>>

Limb(L, i) == IF i <= Len(L) THEN L[i] ELSE 0

\* value of the limbs from position i upward
RECURSIVE LimbsFrom(_, _)
LimbsFrom(L, i) == IF i > Len(L) THEN 0 ELSE L[i] + Scale * LimbsFrom(L, i + 1)

\* The exact value x * (decay_keep/1000)^k, x in ten-thousandths, as
\* thousandths: [ip] the integer part, [half] the fraction compared with
\* one half (-1 below, 0 equal, 1 above).
ExactRisk(x, decay_keep, k) ==
    LET L  == MulPow(Limbs(100 * x), decay_keep, k)
        ip == LimbsFrom(L, k + 2)
        top == Limb(L, k + 1)
        rest == \E j \in 1..k : Limb(L, j) # 0
    IN  [ip   |-> ip,
         half |-> IF top > Scale \div 2 \/ (top = Scale \div 2 /\ rest) THEN 1
                  ELSE IF top = Scale \div 2 THEN 0 ELSE -1]

\* rounding every value with a fraction below the half up as well
Round3_always_up(e, half_up) == e.ip + 1

\* round(x, 3).  A binary64 value whose decimal expansion is an exact half
\* lies just above or just below it; half_up is the side this one falls on.
Round3(e, half_up) ==
    IF e.half = 1 \/ (e.half = 0 /\ half_up) THEN e.ip + 1 ELSE e.ip

(***************************************************************************)
(* AdvancedScamDetector                                                    *)
(***************************************************************************)
ema_alpha == 3

decay_rate == 115

RiskState ==
    [current_risk |-> 0, peak_risk |-> 0, last_update |-> 0,
     segment_count |-> 0, safe_segments_since_risk |-> 0]

\* _calculate_base_risk without the safe-breaker override
_calculate_base_risk_no_override(high_risk_matches, medium_risk_matches, safe_breaker_matches) ==
    LET high_risk_score == Min(Len(high_risk_matches) * 400, 1000)
        medium_risk_score == Min(Len(medium_risk_matches) * 200, 600)
        base_risk == Max(high_risk_score, medium_risk_score)
    IN  IF Len(high_risk_matches) > 1 THEN Min(base_risk + 200, 1000)
        ELSE base_risk

\* the arguments are the three lists of matches
\* _calculate_base_risk adding the boost for several high-risk matches
\* without the cap at 1.0
_calculate_base_risk_uncapped_boost(high_risk_matches, medium_risk_matches, safe_breaker_matches) ==
    IF safe_breaker_matches # <<>> THEN 0
    ELSE LET high_risk_score == Min(Len(high_risk_matches) * 400, 1000)
             medium_risk_score == Min(Len(medium_risk_matches) * 200, 600)
             base_risk == Max(high_risk_score, medium_risk_score)
         IN  IF Len(high_risk_matches) > 1 THEN base_risk + 200
             ELSE base_risk

_calculate_base_risk(high_risk_matches, medium_risk_matches, safe_breaker_matches) ==
    IF safe_breaker_matches # <<>> THEN 0
    ELSE LET high_risk_score == Min(Len(high_risk_matches) * 400, 1000)
             medium_risk_score == Min(Len(medium_risk_matches) * 200, 600)
             base_risk == Max(high_risk_score, medium_risk_score)
         IN  IF Len(high_risk_matches) > 1 THEN Min(base_risk + 200, 1000)
             ELSE base_risk

\* risk_floor: the integer part, in thousandths, of the score
_get_risk_band(risk_floor) ==
    IF risk_floor < 300 THEN "LOW"
    ELSE IF risk_floor < 700 THEN "MEDIUM"
    ELSE "HIGH"

\* _analyze_complete_segment without the reset of the safe streak by a unit
\* that is not safe
_analyze_complete_segment_keeping_streak(st, segment, high_risk_matches, medium_risk_matches, safe_breaker_matches, half_up, t) ==
    LET base_risk == _calculate_base_risk(high_risk_matches, medium_risk_matches,
                                          safe_breaker_matches)
        \* ten-thousandths
        ema == IF st.segment_count = 0 THEN 10 * base_risk
               ELSE ema_alpha * base_risk + (10 - ema_alpha) * st.current_risk
        safe == safe_breaker_matches # <<>> \/ base_risk < 100
        streak == IF safe THEN st.safe_segments_since_risk + 1
                  ELSE st.safe_segments_since_risk
        decayed == ExactRisk(ema, Scale - decay_rate, IF safe THEN Min(streak, 5) ELSE 0)
        \* max(0.0, min(1.0, x))
        smoothed_risk == IF decayed.ip >= Scale THEN [ip |-> Scale, half |-> -1]
                         ELSE IF decayed.ip < 0 THEN [ip |-> 0, half |-> -1]
                         ELSE decayed
    IN  [state |-> [st EXCEPT !.safe_segments_since_risk = streak],
         analysis |->
            [segment |-> segment,
             raw_text |-> segment,
             base_risk |-> base_risk,
             smoothed_risk |-> Round3(smoothed_risk, half_up),
             risk_band |-> _get_risk_band(smoothed_risk.ip),
             high_risk_matches |-> high_risk_matches,
             medium_risk_matches |-> medium_risk_matches,
             safe_breaker_matches |-> safe_breaker_matches,
             is_safe_segment |-> safe_breaker_matches # <<>>,
             is_buffering |-> FALSE,
             segment_count |-> st.segment_count + 1,
             timestamp |-> t]]

\* returns the RiskState after the call (safe_segments_since_risk is
\* updated in place) and the analysis dict (the source's dict has no
\* is_buffering key, which its readers take as False)
_analyze_complete_segment(st, segment, high_risk_matches, medium_risk_matches, safe_breaker_matches, half_up, t) ==
    LET base_risk == _calculate_base_risk(high_risk_matches, medium_risk_matches,
                                          safe_breaker_matches)
        \* ten-thousandths
        ema == IF st.segment_count = 0 THEN 10 * base_risk
               ELSE ema_alpha * base_risk + (10 - ema_alpha) * st.current_risk
        safe == safe_breaker_matches # <<>> \/ base_risk < 100
        streak == IF safe THEN st.safe_segments_since_risk + 1 ELSE 0
        decayed == ExactRisk(ema, Scale - decay_rate, IF safe THEN Min(streak, 5) ELSE 0)
        \* max(0.0, min(1.0, x))
        smoothed_risk == IF decayed.ip >= Scale THEN [ip |-> Scale, half |-> -1]
                         ELSE IF decayed.ip < 0 THEN [ip |-> 0, half |-> -1]
                         ELSE decayed
    IN  [state |-> [st EXCEPT !.safe_segments_since_risk = streak],
         analysis |->
            [segment |-> segment,
             raw_text |-> segment,
             base_risk |-> base_risk,
             smoothed_risk |-> Round3(smoothed_risk, half_up),
             risk_band |-> _get_risk_band(smoothed_risk.ip),
             high_risk_matches |-> high_risk_matches,
             medium_risk_matches |-> medium_risk_matches,
             safe_breaker_matches |-> safe_breaker_matches,
             is_safe_segment |-> safe_breaker_matches # <<>>,
             is_buffering |-> FALSE,
             segment_count |-> st.segment_count + 1,
             timestamp |-> t]]

\* _update_call_state adding the new risk to the stored one
_update_call_state_accumulating(st, analysis) ==
    [st EXCEPT !.current_risk = st.current_risk + analysis.smoothed_risk,
               !.peak_risk = Max(st.peak_risk, st.current_risk + analysis.smoothed_risk),
               !.last_update = analysis.timestamp,
               !.segment_count = analysis.segment_count]

\* _update_call_state overwriting the peak with the new risk
_update_call_state_no_max(st, analysis) ==
    [st EXCEPT !.current_risk = analysis.smoothed_risk,
               !.peak_risk = analysis.smoothed_risk,
               !.last_update = analysis.timestamp,
               !.segment_count = analysis.segment_count]

\* _update_call_state that does not store the segment count
_update_call_state_dropping_count(st, analysis) ==
    [st EXCEPT !.current_risk = analysis.smoothed_risk,
               !.peak_risk = Max(st.peak_risk, analysis.smoothed_risk),
               !.last_update = analysis.timestamp]

_update_call_state(st, analysis) ==
    [st EXCEPT !.current_risk = analysis.smoothed_risk,
               !.peak_risk = Max(st.peak_risk, analysis.smoothed_risk),
               !.last_update = analysis.timestamp,
               !.segment_count = analysis.segment_count]

\* _get_current_analysis reporting the peak in place of the current risk
_get_current_analysis_reporting_peak(states, stream_sid, raw_text, is_buffering, t) ==
    LET state == IF stream_sid \in DOMAIN states THEN states[stream_sid] ELSE RiskState
    IN  [segment |-> raw_text,
         raw_text |-> raw_text,
         base_risk |-> 0,
         smoothed_risk |-> state.peak_risk,
         risk_band |-> _get_risk_band(state.current_risk),
         high_risk_matches |-> <<>>,
         medium_risk_matches |-> <<>>,
         safe_breaker_matches |-> <<>>,
         is_safe_segment |-> FALSE,
         is_buffering |-> is_buffering,
         segment_count |-> state.segment_count,
         timestamp |-> t]

_get_current_analysis(states, stream_sid, raw_text, is_buffering, t) ==
    LET state == IF stream_sid \in DOMAIN states THEN states[stream_sid] ELSE RiskState
    IN  [segment |-> raw_text,
         raw_text |-> raw_text,
         base_risk |-> 0,
         smoothed_risk |-> state.current_risk,
         risk_band |-> _get_risk_band(state.current_risk),
         high_risk_matches |-> <<>>,
         medium_risk_matches |-> <<>>,
         safe_breaker_matches |-> <<>>,
         is_safe_segment |-> FALSE,
         is_buffering |-> is_buffering,
         segment_count |-> state.segment_count,
         timestamp |-> t]

\* f with key k set to v (a dict assignment f[k] = v)
Put(f, k, v) == [x \in DOMAIN f \cup {k} |-> IF x = k THEN v ELSE f[x]]

\* f without key k (dict.pop(k, None))
Pop(f, k) == [x \in DOMAIN f \ {k} |-> f[x]]

\* returns both dicts after the call, the analysis, and whether a complete
\* segment was scored
analyze_segment(states, buffers, stream_sid, raw_text, high_risk_matches, medium_risk_matches, safe_breaker_matches, half_up, t) ==
    LET states1 == IF stream_sid \in DOMAIN states THEN states
                   ELSE Put(states, stream_sid, RiskState)
        buffers1 == IF stream_sid \in DOMAIN states THEN buffers
                    ELSE Put(buffers, stream_sid, SegmentBuffer)
    IN  Only({
            LET buffers2 == Put(buffers1, stream_sid, added.buf)
                complete_segment == added.ret
            IN  IF Truthy(complete_segment)
                THEN Only({
                        [call_states |-> Put(states1, stream_sid,
                                 _update_call_state(scored.state, scored.analysis)),
                         segment_buffers |-> buffers2,
                         analysis |-> scored.analysis,
                         complete |-> TRUE]
                      : scored \in {_analyze_complete_segment(states1[stream_sid],
                                        complete_segment.text, high_risk_matches,
                                        medium_risk_matches, safe_breaker_matches,
                                        half_up, t)} })
                ELSE [call_states |-> states1,
                      segment_buffers |-> buffers2,
                      analysis |-> _get_current_analysis(states1, stream_sid,
                                                         raw_text, TRUE, t),
                      complete |-> FALSE]
          : added \in {add_fragment(buffers1[stream_sid], raw_text, t)} })

\* get_call_summary answering an unknown identifier with an all-zero summary
get_call_summary_zero_for_unknown(states, stream_sid) ==
    LET state == IF stream_sid \in DOMAIN states THEN states[stream_sid] ELSE RiskState
    IN  [stream_sid |-> stream_sid,
         current_risk |-> state.current_risk,
         peak_risk |-> state.peak_risk,
         segment_count |-> state.segment_count,
         safe_segments_since_risk |-> state.safe_segments_since_risk,
         last_update |-> state.last_update,
         risk_band |-> _get_risk_band(state.current_risk)]

get_call_summary(states, stream_sid) ==
    IF stream_sid \notin DOMAIN states THEN [error |-> "Call not found"]
    ELSE LET state == states[stream_sid]
         IN  [stream_sid |-> stream_sid,
              current_risk |-> state.current_risk,
              peak_risk |-> state.peak_risk,
              segment_count |-> state.segment_count,
              safe_segments_since_risk |-> state.safe_segments_since_risk,
              last_update |-> state.last_update,
              risk_band |-> _get_risk_band(state.current_risk)]

\* cleanup_call clearing both dicts
cleanup_call_all_sessions(states, buffers, stream_sid) ==
    [call_states |-> <<>>, segment_buffers |-> <<>>]

\* cleanup_call leaving the SegmentBuffer of the call behind
cleanup_call_keeps_buffer(states, buffers, stream_sid) ==
    [call_states |-> Pop(states, stream_sid), segment_buffers |-> buffers]

cleanup_call(states, buffers, stream_sid) ==
    [call_states |-> Pop(states, stream_sid),
     segment_buffers |-> Pop(buffers, stream_sid)]

(***************************************************************************)
(* EnsembleScamDetector and ImprovedEnsembleDetector                       *)
(*                                                                         *)
(* An ensemble score is kept in ten-thousandths: a weight with one decimal *)
(* times a risk or probability with three.                                 *)
(***************************************************************************)
\* dict-shaped answers of the keyword matcher for one analyze_segment call
NoAnswer == [high |-> <<>>, medium |-> <<>>, safe |-> <<>>, half_up |-> TRUE]

\* EnsembleScamDetector.extract_features and
\* ImprovedEnsembleDetector.extract_enhanced_features: one analyze_segment
\* call on the detector's own AdvancedScamDetector (the other features are
\* read off the text and the classifier)
extract_features(states, buffers, text, stream_sid, m, t) ==
    analyze_segment(states, buffers, stream_sid, text, m.high, m.medium, m.safe,
                    m.half_up, t)

\* the two conditional expressions on the score, which share their cuts
Decision(score, high_cut, medium_cut) ==
    [prediction |-> IF score >= high_cut THEN "scam"
                    ELSE IF score >= medium_cut THEN "suspicious" ELSE "safe",
     risk_band  |-> IF score >= high_cut THEN "HIGH"
                    ELSE IF score >= medium_cut THEN "MEDIUM" ELSE "LOW"]

\* EnsembleScamDetector.predict.  m1, m2: the matcher's answers for the two
\* analyze_segment calls; probability: ml_model.predict(text), thousandths;
\* proba: ensemble_model.predict_proba(features)[0][1], ten-thousandths.
\* Returns the detector's dicts after the call, the result dict and the
\* analyze_segment results in call order.
ensemble_predict(states, buffers, e, text, stream_sid, m1, m2, probability, proba, t) ==
    Only({
        IF ~e.is_trained
        THEN Only({
            LET ensemble_score == 6 * advanced.analysis.smoothed_risk + 4 * probability
            IN  [call_states |-> advanced.call_states,
                 segment_buffers |-> advanced.segment_buffers,
                 analyses |-> <<features, advanced>>,
                 result |-> [ensemble_score |-> ensemble_score,
                             advanced_score |-> advanced.analysis.smoothed_risk,
                             ml_score |-> probability,
                             prediction |-> Decision(ensemble_score, 7000, 4000).prediction,
                             risk_band |-> Decision(ensemble_score, 7000, 4000).risk_band,
                             method |-> "weighted_average",
                             is_trained |-> FALSE]]
          : advanced \in {analyze_segment(features.call_states,
                              features.segment_buffers, stream_sid, text,
                              m2.high, m2.medium, m2.safe, m2.half_up, t)} })
        ELSE [call_states |-> features.call_states,
              segment_buffers |-> features.segment_buffers,
              analyses |-> <<features>>,
              result |-> [ensemble_score |-> proba,
                          advanced_score |-> features.analysis.smoothed_risk,
                          ml_score |-> probability,
                          prediction |-> Decision(proba, 7000, 4000).prediction,
                          risk_band |-> Decision(proba, 7000, 4000).risk_band,
                          method |-> "logistic_regression",
                          is_trained |-> TRUE]]
      : features \in {extract_features(states, buffers, text, stream_sid, m1, t)} })

\* ImprovedEnsembleDetector.predict
improved_predict(states, buffers, e, text, stream_sid, m1, m2, probability, proba, t) ==
    Only({
        IF ~e.is_trained
        THEN Only({
            LET ml_weight == 3
                advanced_weight == IF advanced.analysis.base_risk > 800 THEN 8
                                   ELSE IF advanced.analysis.base_risk < 200 THEN 5
                                   ELSE 7
                ensemble_score == advanced_weight * advanced.analysis.smoothed_risk
                                  + ml_weight * probability
            IN  [call_states |-> advanced.call_states,
                 segment_buffers |-> advanced.segment_buffers,
                 analyses |-> <<features, advanced>>,
                 result |-> [ensemble_score |-> ensemble_score,
                             advanced_score |-> advanced.analysis.smoothed_risk,
                             ml_score |-> probability,
                             prediction |-> Decision(ensemble_score, 6000, 4000).prediction,
                             risk_band |-> Decision(ensemble_score, 6000, 4000).risk_band,
                             method |-> "improved_weighted_average",
                             is_trained |-> FALSE]]
          : advanced \in {analyze_segment(features.call_states,
                              features.segment_buffers, stream_sid, text,
                              m2.high, m2.medium, m2.safe, m2.half_up, t)} })
        ELSE [call_states |-> features.call_states,
              segment_buffers |-> features.segment_buffers,
              analyses |-> <<features>>,
              result |-> [ensemble_score |-> proba,
                          advanced_score |-> features.analysis.smoothed_risk,
                          ml_score |-> probability,
                          prediction |-> Decision(proba, e.optimal_threshold, 4000).prediction,
                          risk_band |-> Decision(proba, e.optimal_threshold, 4000).risk_band,
                          method |-> "improved_logistic_regression",
                          is_trained |-> TRUE]]
      : features \in {extract_features(states, buffers, text, stream_sid, m1, t)} })

(***************************************************************************)
(* State                                                                   *)
(***************************************************************************)
VARIABLES
    now,              \* time.time()
    call_states,      \* AdvancedScamDetector.call_states, per detector instance
    segment_buffers,  \* AdvancedScamDetector.segment_buffers, per detector instance
    ensembles,        \* is_trained and optimal_threshold of the ensemble detectors
    call,             \* the operation invoked last, with its arguments
    ret,              \* what that operation returned
    hist,             \* per instance and session: the units scored since creation
    script,           \* fragments a scripted caller has still to feed
    outs,             \* per fragment the scripted caller fed: the sentence emitted
    stream,           \* the Twilio media stream main.py is serving
    tasks,            \* the process_audio_chunk tasks created so far, by chunk number
    websockets,       \* per stream_sid, the websocket connection serving that stream
    frontends         \* connected_frontends and the broadcast_to_frontends in progress

vars == <<now, call_states, segment_buffers, ensembles, call, ret, hist, script, outs,
          stream, tasks, websockets, frontends>>

\* the module-level detector of advanced_scam_detector.py and the instances
\* the two ensemble detectors construct for themselves
Instances == {"detector", "ensemble", "improved"}

StreamSids == {"A"}

\* the identifiers of two calls served at the same time
Sids == {"A", "B"}

\* main.py before the start event: no stream, no chunk cut, no fragment
\* ingested, no final summary, recent_risk_score 0.0 (ten-thousandths), no
\* ImprovedEnsembleDetector built yet, current_stream_sid None, and no
\* stream in active_calls or registered with the audio bridge
NoStream ==
    [phase |-> "idle", cut |-> 0, order |-> <<>>, final_summary |-> None_,
     recent_risk_score |-> 0, detector_built |-> FALSE,
     current_stream_sid |-> "None", active_calls |-> {}, twilio_clients |-> {}]

\* main.py with no frontend client connected and no broadcast under way
NoFrontends ==
    [connected_frontends |-> {},
     broadcast |-> [phase |-> "idle", registered |-> {}, size |-> 0, visited |-> {},
                    current |-> "none", sent |-> {}, disconnected |-> {}, count |-> 0]]

\* lists of n matches ("keyword (score%)" strings in the source)
MatchList(n) == [i \in 1..n |-> "kw"]

\* what the matcher found in one sentence: the number of matches per tier
Profile(high, medium, safe) == [high |-> high, medium |-> medium, safe |-> safe]

Untrained == [is_trained |-> FALSE, optimal_threshold |-> 5000]

Init ==
    /\ now = 0
    /\ call_states = [d \in Instances |-> <<>>]
    /\ segment_buffers = [d \in Instances |-> <<>>]
    /\ ensembles = [d \in {"ensemble", "improved"} |-> Untrained]
    /\ call = [op |-> "init"]
    /\ ret = None_
    /\ hist = [d \in Instances |-> [s \in Sids |-> <<>>]]
    /\ script = <<>>
    /\ outs = <<>>
    /\ stream = NoStream
    /\ tasks = <<>>
    /\ websockets = <<>>
    /\ frontends = NoFrontends

HistEntry(analysis, st) ==
    [base_risk |-> analysis.base_risk,
     safe |-> analysis.safe_breaker_matches # <<>> \/ analysis.base_risk < 100,
     current_risk |-> st.current_risk,
     peak_risk |-> st.peak_risk]

\* the history after the analyze_segment result r
HistAfter(h, stream_sid, r) ==
    IF r.complete
    THEN [h EXCEPT ![stream_sid] =
             Append(@, HistEntry(r.analysis, r.call_states[stream_sid]))]
    ELSE h

\* the session has room for another scored unit within the bound
Room(d, stream_sid, cap) ==
    stream_sid \in DOMAIN call_states[d] => call_states[d][stream_sid].segment_count < cap

\* analyze_segment would hand a complete segment to the matcher
Emits(d, stream_sid, raw_text) ==
    Truthy(add_fragment(IF stream_sid \in DOMAIN segment_buffers[d]
                        THEN segment_buffers[d][stream_sid] ELSE SegmentBuffer,
                        raw_text, now).ret)

\* the matcher's answers: it is consulted only for a complete segment
Answers(profiles, emits) ==
    IF emits
    THEN {[high |-> MatchList(p.high), medium |-> MatchList(p.medium),
           safe |-> MatchList(p.safe), half_up |-> h] :
             p \in profiles, h \in BOOLEAN}
    ELSE {NoAnswer}

Tick(limit) ==
    /\ now < limit
    /\ now' = now + 1
    /\ UNCHANGED <<call_states, segment_buffers, ensembles, call, ret, hist, script, outs, stream, tasks, websockets, frontends>>

\* detector.analyze_segment(stream_sid, raw_text) on the module-level
\* detector (the result of the call is bound once, as a value)
Analyze(stream_sid, raw_text, m) ==
    \E r \in {analyze_segment(call_states["detector"], segment_buffers["detector"],
                  stream_sid, raw_text, m.high, m.medium, m.safe, m.half_up, now)} :
        /\ call_states' = [call_states EXCEPT !["detector"] = r.call_states]
        /\ segment_buffers' = [segment_buffers EXCEPT !["detector"] = r.segment_buffers]
        /\ ret' = r.analysis
        /\ hist' = [hist EXCEPT !["detector"] = HistAfter(@, stream_sid, r)]
        /\ call' = [op |-> "analyze_segment", stream_sid |-> stream_sid,
                    text |-> raw_text]
        /\ UNCHANGED <<now, ensembles>>

\* analyze_text_segment(stream_sid, text)
AnalyzeTextSegment(stream_sid, raw_text, m) ==
    /\ Analyze(stream_sid, raw_text, m)
    /\ UNCHANGED <<script, outs, stream, tasks, websockets, frontends>>

\* detector.segment_buffers[stream_sid].check_timeout()
CheckTimeout(stream_sid) ==
    /\ stream_sid \in DOMAIN segment_buffers["detector"]
    /\ \E r \in {check_timeout(segment_buffers["detector"][stream_sid], now)} :
           /\ segment_buffers' = [segment_buffers EXCEPT !["detector"][stream_sid] = r.buf]
           /\ ret' = r.ret
    /\ call' = [op |-> "check_timeout", stream_sid |-> stream_sid]
    /\ UNCHANGED <<now, call_states, ensembles, hist, script, outs, stream, tasks, websockets, frontends>>

\* get_call_risk_summary(stream_sid)
GetCallRiskSummary(stream_sid) ==
    /\ ret' = get_call_summary(call_states["detector"], stream_sid)
    /\ call' = [op |-> "get_call_summary", stream_sid |-> stream_sid]
    /\ UNCHANGED <<now, call_states, segment_buffers, ensembles, hist, script, outs, stream, tasks, websockets, frontends>>

\* cleanup_call_detection(stream_sid)
CleanupCallDetection(stream_sid) ==
    /\ \E r \in {cleanup_call(call_states["detector"], segment_buffers["detector"],
                              stream_sid)} :
           /\ call_states' = [call_states EXCEPT !["detector"] = r.call_states]
           /\ segment_buffers' = [segment_buffers EXCEPT !["detector"] = r.segment_buffers]
    /\ hist' = [hist EXCEPT !["detector"][stream_sid] = <<>>]
    /\ ret' = None_
    /\ call' = [op |-> "cleanup_call", stream_sid |-> stream_sid]
    /\ UNCHANGED <<now, ensembles, script, outs, stream, tasks, websockets, frontends>>

\* the history of instance d after the analyze_segment results rs, in order
RECURSIVE HistAfterAll(_, _, _)
HistAfterAll(h, stream_sid, rs) ==
    IF rs = <<>> THEN h
    ELSE HistAfterAll(HistAfter(h, stream_sid, Head(rs)), stream_sid, Tail(rs))

\* the frame of a predict call on ensemble detector d with outcome r
Predicted(d, op, stream_sid, text, r) ==
    /\ call_states' = [call_states EXCEPT ![d] = r.call_states]
    /\ segment_buffers' = [segment_buffers EXCEPT ![d] = r.segment_buffers]
    /\ hist' = [hist EXCEPT ![d] = HistAfterAll(@, stream_sid, r.analyses)]
    /\ ret' = r.result
    /\ call' = [op |-> op, stream_sid |-> stream_sid, text |-> text]
    /\ UNCHANGED <<now, ensembles, script, outs, stream, tasks, websockets, frontends>>

\* analyze_with_ensemble(text, stream_sid)
AnalyzeWithEnsemble(stream_sid, text, m1, m2, probability, proba) ==
    \E r \in {ensemble_predict(call_states["ensemble"], segment_buffers["ensemble"],
                  ensembles["ensemble"], text, stream_sid, m1, m2, probability,
                  proba, now)} :
        Predicted("ensemble", "ensemble_predict", stream_sid, text, r)

\* analyze_with_improved_ensemble(text, stream_sid)
AnalyzeWithImprovedEnsemble(stream_sid, text, m1, m2, probability, proba) ==
    \E r \in {improved_predict(call_states["improved"], segment_buffers["improved"],
                  ensembles["improved"], text, stream_sid, m1, m2, probability,
                  proba, now)} :
        Predicted("improved", "improved_predict", stream_sid, text, r)

(***************************************************************************)
(* Spec: the detector under a running clock, with timeouts, summaries and   *)
(* teardown                                                                 *)
(***************************************************************************)
MaxTime == 3

MaxSegments == 2

LongLen == 151

Fragments ==
    { <<"h","o","l","d"," ","o","n">>,
      <<"O","k",".">>,
      <<"y","e","s","!"," ","b","u","t">>,
      <<" "," ">>,
      <<"o","n","e"," ","t","w","o"," ","t","h","r","e","e"," ","f","o","u","r"," ",
        "f","i","v","e"," ","s","i","x">>,
      [i \in 1..LongLen |-> "x"] }

Profiles == {Profile(0, 0, 0), Profile(1, 0, 0)}

Next ==
    \/ Tick(MaxTime)
    \/ \E sid \in StreamSids, raw \in Fragments :
         \E m \in Answers(Profiles, Emits("detector", sid, raw)) :
            /\ Room("detector", sid, MaxSegments)
            /\ AnalyzeTextSegment(sid, raw, m)
    \/ \E sid \in StreamSids : CheckTimeout(sid)
    \/ \E sid \in StreamSids : GetCallRiskSummary(sid)
    \/ \E sid \in StreamSids : CleanupCallDetection(sid)

Spec == Init /\ [][Next]_vars

(***************************************************************************)
(* SpecRisk: long runs of scored units on a frozen clock, with every        *)
(* combination of match counts the keyword matcher can report               *)
(***************************************************************************)
MaxRiskSegments == 5

RiskProfiles ==
    { Profile(0, 0, 0), Profile(0, 1, 0), Profile(1, 0, 0), Profile(2, 0, 0),
      Profile(3, 4, 0), Profile(2, 1, 1) }

RiskFragments ==
    { <<"h","o","l","d"," ","o","n">>, <<"o","k",".">> }

NextRisk ==
    \/ \E sid \in StreamSids, raw \in RiskFragments :
         \E m \in Answers(RiskProfiles, Emits("detector", sid, raw)) :
            /\ Room("detector", sid, MaxRiskSegments)
            /\ AnalyzeTextSegment(sid, raw, m)
    \/ \E sid \in StreamSids : CleanupCallDetection(sid)

SpecRisk == Init /\ [][NextRisk]_vars

(***************************************************************************)
(* SpecScript: a caller feeds a fixed sequence of fragments to a fresh      *)
(* session, one analyze_text_segment call per fragment                      *)
(***************************************************************************)
MaxScript == 3

ScriptSid == "A"

ScriptFragments ==
    { <<"t","h","i","s"," ","i","s"," ","t","h","e">>,
      <<"i","r","s"," ","c","a","l","l","i","n","g">>,
      <<"a","b","o","u","t"," ","y","o","u","r"," ","t","a","x"," ","d","e","b","t",".">>,
      <<"h","e","l","l","o">>,
      <<"s","o"," ","y","o","u">> }

Scripts == UNION {[1..n -> ScriptFragments] : n \in 0..MaxScript}

InitScript ==
    /\ now = 0
    /\ call_states = [d \in Instances |-> <<>>]
    /\ segment_buffers = [d \in Instances |-> <<>>]
    /\ ensembles = [d \in {"ensemble", "improved"} |-> Untrained]
    /\ call = [op |-> "init"]
    /\ ret = None_
    /\ hist = [d \in Instances |-> [s \in Sids |-> <<>>]]
    /\ script \in Scripts
    /\ outs = <<>>
    /\ stream = NoStream
    /\ tasks = <<>>
    /\ websockets = <<>>
    /\ frontends = NoFrontends

Feed(m) ==
    /\ script # <<>>
    /\ Analyze(ScriptSid, Head(script), m)
    /\ script' = Tail(script)
    /\ outs' = Append(outs, [text |-> Head(script),
                             sentence |-> IF ret'.is_buffering THEN None_
                                          ELSE Some(ret'.segment)])
    /\ UNCHANGED <<stream, tasks, websockets, frontends>>

NextScript ==
    \E m \in IF script = <<>> THEN {NoAnswer}
             ELSE Answers(Profiles, Emits("detector", ScriptSid, Head(script))) :
        Feed(m)

SpecScript == InitScript /\ [][NextScript]_vars

(***************************************************************************)
(* SpecEns: the two ensemble detectors, trained or not                      *)
(***************************************************************************)
MaxEnsSegments == 2

EnsFragments ==
    { <<"h","o","l","d"," ","o","n">>, <<"o","k",".">> }

EnsProfiles == {Profile(0, 0, 0), Profile(2, 0, 0)}

\* ml_model.predict(text)["probability"], thousandths
Probabilities == {0, 1000}

\* thresholds a trained improved ensemble may have been saved with
Thresholds == {5000, 6500}

InitEns ==
    /\ now = 0
    /\ call_states = [d \in Instances |-> <<>>]
    /\ segment_buffers = [d \in Instances |-> <<>>]
    /\ ensembles \in [{"ensemble", "improved"} ->
                        [is_trained : BOOLEAN, optimal_threshold : Thresholds]]
    /\ \A d \in DOMAIN ensembles :
          ~ensembles[d].is_trained => ensembles[d] = Untrained
    /\ ensembles["ensemble"].optimal_threshold = Untrained.optimal_threshold
    /\ call = [op |-> "init"]
    /\ ret = None_
    /\ hist = [d \in Instances |-> [s \in Sids |-> <<>>]]
    /\ script = <<>>
    /\ outs = <<>>
    /\ stream = NoStream
    /\ tasks = <<>>
    /\ websockets = <<>>
    /\ frontends = NoFrontends

\* the buffers of instance d once the fragment has been ingested once
Ingested(d, stream_sid, raw_text) ==
    Put(segment_buffers[d], stream_sid,
        add_fragment(IF stream_sid \in DOMAIN segment_buffers[d]
                     THEN segment_buffers[d][stream_sid] ELSE SegmentBuffer,
                     raw_text, now).buf)

\* the second analyze_segment call of an untrained predict emits
EmitsAgain(d, stream_sid, raw_text) ==
    /\ ~ensembles[d].is_trained
    /\ Truthy(add_fragment(Ingested(d, stream_sid, raw_text)[stream_sid],
                           raw_text, now).ret)

PredictInputs(d, stream_sid, raw_text) ==
    [m1 : Answers(EnsProfiles, Emits(d, stream_sid, raw_text)),
     m2 : Answers(EnsProfiles, EmitsAgain(d, stream_sid, raw_text)),
     probability : Probabilities,
     proba : IF ensembles[d].is_trained THEN {10 * q : q \in Probabilities} ELSE {0}]

\* units scored so far on instance d for the session
Scored(d, stream_sid) ==
    IF stream_sid \in DOMAIN call_states[d]
    THEN call_states[d][stream_sid].segment_count ELSE 0

\* the two detectors together have room for another predict within the bound
EnsRoom(stream_sid) ==
    Scored("ensemble", stream_sid) + Scored("improved", stream_sid) < MaxEnsSegments

NextEns ==
    \/ \E sid \in StreamSids, raw \in EnsFragments :
         \E i \in PredictInputs("ensemble", sid, raw) :
            /\ EnsRoom(sid)
            /\ AnalyzeWithEnsemble(sid, raw, i.m1, i.m2, i.probability, i.proba)
    \/ \E sid \in StreamSids, raw \in EnsFragments :
         \E i \in PredictInputs("improved", sid, raw) :
            /\ EnsRoom(sid)
            /\ AnalyzeWithImprovedEnsemble(sid, raw, i.m1, i.m2, i.probability, i.proba)

SpecEns == InitEns /\ [][NextEns]_vars

(***************************************************************************)
(* SpecTwo: two calls served by the module-level detector at the same      *)
(* time, their operations interleaved in every order; the clock stands.    *)
(***************************************************************************)

MaxTwoSegments == 2

TwoFragments == { <<"h","o","l","d"," ","o","n">>, <<"o","k",".">> }

NextTwo ==
    \/ \E sid \in Sids, raw \in TwoFragments :
         \E m \in Answers(Profiles, Emits("detector", sid, raw)) :
            /\ Room("detector", sid, MaxTwoSegments)
            /\ AnalyzeTextSegment(sid, raw, m)
    \/ \E sid \in Sids : GetCallRiskSummary(sid)
    \/ \E sid \in Sids : CleanupCallDetection(sid)

SpecTwo == Init /\ [][NextTwo]_vars

(***************************************************************************)
(* SpecDecay: one session fed a long run of sentence units, most of them   *)
(* safe, so that the stored risk decays down to 0; the clock stands.       *)
(***************************************************************************)

MaxDecaySegments == 10

DecayProfiles == {Profile(0, 0, 0), Profile(0, 1, 0), Profile(0, 0, 1)}

DecayFragments == { <<"o","k",".">>, <<"h","o","l","d"," ","o","n">> }

NextDecay ==
    \E sid \in StreamSids, raw \in DecayFragments :
       \E m \in Answers(DecayProfiles, Emits("detector", sid, raw)) :
          /\ Room("detector", sid, MaxDecaySegments)
          /\ AnalyzeTextSegment(sid, raw, m)

SpecDecay == Init /\ [][NextDecay]_vars

(***************************************************************************)
(* SpecBase: _calculate_base_risk applied to match lists of every length   *)
(* up to a bound.                                                          *)
(***************************************************************************)

MaxMatches == 6

\* detector._calculate_base_risk(high_risk_matches, medium_risk_matches,
\* safe_breaker_matches) with lists of the given lengths
CalculateBaseRisk(high, medium, safe) ==
    /\ ret' = _calculate_base_risk(MatchList(high), MatchList(medium), MatchList(safe))
    /\ call' = [op |-> "_calculate_base_risk", high |-> high, medium |-> medium,
                safe |-> safe]
    /\ UNCHANGED <<now, call_states, segment_buffers, ensembles, hist, script, outs, stream, tasks, websockets, frontends>>

NextBase ==
    \E high \in 0..MaxMatches, medium \in 0..MaxMatches, safe \in 0..2 :
        CalculateBaseRisk(high, medium, safe)

SpecBase == Init /\ [][NextBase]_vars

(***************************************************************************)
(* SpecSentence: one session of the module-level detector fed fragments    *)
(* with several punctuation marks, discourse markers and short phrases,    *)
(* with check_timeout calls, under a running clock.                        *)
(***************************************************************************)

MaxSentenceTime == 3

MaxSentenceSegments == 3

SentenceFragments ==
    { <<"h","o","l","d"," ","o","n">>,
      <<"a","n","d"," ","i">>,
      <<"n","o","."," ","y","e","s","!">>,
      <<"w","h","y","?"," ","o","k">>,
      <<"v","2",".","5"," ","a"," ","b"," ","c"," ","d"," ","e">> }

NextSentence ==
    \/ Tick(MaxSentenceTime)
    \/ \E sid \in StreamSids, raw \in SentenceFragments :
         \E m \in Answers({Profile(0, 0, 0)}, Emits("detector", sid, raw)) :
            /\ Room("detector", sid, MaxSentenceSegments)
            /\ AnalyzeTextSegment(sid, raw, m)
    \/ \E sid \in StreamSids : CheckTimeout(sid)

SpecSentence == Init /\ [][NextSentence]_vars

(***************************************************************************)
(* The keyword matcher. rapidfuzz is a library: the similarity scores it   *)
(* returns for a keyword are inputs, fuzz.partial_ratio[keyword] for the    *)
(* keyword against the text and fuzz.ratio[keyword] for the best ratio of  *)
(* the keyword against one word of the text.                               *)
(***************************************************************************)
fuzzy_threshold == 75

\* ScamKeywords(): a few of the default phrases of each tier
ScamKeywords ==
    [high_risk     |-> << <<"o","t","p">>, <<"t","a","x"," ","d","e","b","t">> >>,
     medium_risk   |-> << <<"f","i","n","e">>, <<"p","a","s","t"," ","d","u","e">> >>,
     safe_breakers |-> << <<"b","y","e">> >>]

\* pat in s, for strings
HasSubstring(s, pat) == FirstMatch(s, pat, 1) <= Len(s)

\* the threshold of a high-risk keyword after the three special cases
HighRiskThreshold(keyword_lower) ==
    LET money_words ==
            { <<"$">>, <<"d","o","l","l","a","r">>, <<"m","o","n","e","y">>,
              <<"t","h","o","u","s","a","n","d">> }
        phone_words ==
            { <<"p","h","o","n","e">>, <<"o","t","p">>, <<"n","u","m","b","e","r">> }
        gift_words ==
            { <<"g","i","f","t">>, <<"c","o","u","p","o","n">>,
              <<"a","m","a","z","o","n">> }
    IN  IF \E w \in money_words : HasSubstring(keyword_lower, w) THEN 60
        ELSE IF \E w \in phone_words : HasSubstring(keyword_lower, w) THEN 60
        ELSE IF \E w \in gift_words : HasSubstring(keyword_lower, w) THEN 60
        ELSE 65

\* MatchOne without the word-level test of single-word high-risk keywords
MatchOne_no_word_test(kw, threshold75, keywords, keyword, fuzz) ==
    LET keyword_lower == Lower(keyword)
        score == fuzz.partial_ratio[keyword]
        entry == << [keyword |-> keyword, score |-> score] >>
    IN  IF keywords = kw.safe_breakers
        THEN IF score >= 85 THEN entry ELSE <<>>
        ELSE IF keywords = kw.high_risk
        THEN IF score >= HighRiskThreshold(keyword_lower) THEN entry ELSE <<>>
        ELSE IF score >= threshold75 THEN entry ELSE <<>>

\* one turn of the loop over keywords: the matches the keyword adds
MatchOne(kw, threshold75, keywords, keyword, fuzz) ==
    LET keyword_lower == Lower(keyword)
        score == fuzz.partial_ratio[keyword]
        entry == << [keyword |-> keyword, score |-> score] >>
    IN  IF keywords = kw.safe_breakers
        THEN IF score >= 85 THEN entry ELSE <<>>
        ELSE IF keywords = kw.high_risk
        THEN LET threshold == HighRiskThreshold(keyword_lower)
                 word_matches == fuzz.ratio[keyword] >= 60
             IN  IF score >= threshold /\ Len(Split(keyword_lower)) = 1
                    /\ ~word_matches /\ score < 85
                 THEN <<>>
                 ELSE IF score >= threshold THEN entry ELSE <<>>
        ELSE IF score >= threshold75 THEN entry ELSE <<>>

RECURSIVE MatchFrom(_, _, _, _, _)
MatchFrom(kw, threshold75, keywords, fuzz, k) ==
    IF k > Len(keywords) THEN <<>>
    ELSE MatchOne(kw, threshold75, keywords, keywords[k], fuzz)
            \o MatchFrom(kw, threshold75, keywords, fuzz, k + 1)

\* detector._fuzzy_keyword_match(text, keywords) on a detector whose
\* self.keywords is kw
_fuzzy_keyword_match(kw, text, keywords, fuzz) ==
    IF text = <<>> \/ keywords = <<>> THEN <<>>
    ELSE MatchFrom(kw, fuzzy_threshold, keywords, fuzz, 1)

(***************************************************************************)
(* SpecMatch: the matcher called, as _analyze_complete_segment calls it,    *)
(* with one of the three tier lists of the detector's ScamKeywords(), for  *)
(* every combination of similarity scores around the thresholds.           *)
(***************************************************************************)
Tiers == {"high_risk", "medium_risk", "safe_breakers"}

Elements(keywords) == { keywords[k] : k \in 1..Len(keywords) }

\* the answers of the library for the keywords of one call on a text that
\* is not empty: scores on both sides of every threshold
FuzzAnswers(keywords) ==
    { [partial_ratio |-> p, ratio |-> r] :
        p \in [Elements(keywords) -> {59, 60, 64, 65, 74, 75, 84, 85}],
        r \in [Elements(keywords) -> {59, 60}] }

FuzzyKeywordMatch(kw, tier, text, fuzz) ==
    /\ ret' = _fuzzy_keyword_match(kw, text, kw[tier], fuzz)
    /\ call' = [op |-> "_fuzzy_keyword_match", keywords |-> kw, tier |-> tier,
                text |-> text, fuzz |-> fuzz]
    /\ UNCHANGED <<now, call_states, segment_buffers, ensembles, hist, script, outs, stream, tasks, websockets, frontends>>

\* on an empty text the library is not consulted
NextMatch ==
    \/ \E tier \in Tiers :
          \E fuzz \in FuzzAnswers(ScamKeywords[tier]) :
             FuzzyKeywordMatch(ScamKeywords, tier, <<"o","k",".">>, fuzz)
    \/ \E tier \in Tiers :
          FuzzyKeywordMatch(ScamKeywords, tier, <<>>,
                            [partial_ratio |-> <<>>, ratio |-> <<>>])

SpecMatch == Init /\ [][NextMatch]_vars

(***************************************************************************)
(* SpecTiers: the matcher on detectors whose keywords were configured:     *)
(* ScamKeywords takes the three lists as constructor arguments, and two    *)
(* tiers may be given the same phrases.                                    *)
(***************************************************************************)
KeywordConfigs ==
    { ScamKeywords,
      [high_risk     |-> << <<"t","a","x"," ","d","e","b","t">> >>,
       medium_risk   |-> << <<"f","i","n","e">> >>,
       safe_breakers |-> << <<"t","a","x"," ","d","e","b","t">> >>],
      [high_risk     |-> << <<"f","i","n","e">> >>,
       medium_risk   |-> << <<"f","i","n","e">> >>,
       safe_breakers |-> << <<"b","y","e">> >>] }

NextTiers ==
    \E kw \in KeywordConfigs, tier \in Tiers :
       \E fuzz \in FuzzAnswers(kw[tier]) :
          FuzzyKeywordMatch(kw, tier, <<"o","k",".">>, fuzz)

SpecTiers == Init /\ [][NextTiers]_vars

(***************************************************************************)
(* SpecLife: sessions of the module-level detector created, fed short and  *)
(* blank fragments, summarised and cleaned up, under a running clock.      *)
(***************************************************************************)

MaxLifeTime == 3

MaxLifeSegments == 2

LifeFragments ==
    { <<"h","o","l","d"," ","o","n">>, <<"o","k",".">>, <<" "," ">>, <<>> }

NextLife ==
    \/ Tick(MaxLifeTime)
    \/ \E sid \in StreamSids, raw \in LifeFragments :
         \E m \in Answers(Profiles, Emits("detector", sid, raw)) :
            /\ Room("detector", sid, MaxLifeSegments)
            /\ AnalyzeTextSegment(sid, raw, m)
    \/ \E sid \in StreamSids : GetCallRiskSummary(sid)
    \/ \E sid \in StreamSids : CleanupCallDetection(sid)

SpecLife == Init /\ [][NextLife]_vars

(***************************************************************************)
(* SpecCall: one call through websocket_endpoint.  The start event opens   *)
(* the stream, every media event that fills the audio buffer cuts a chunk  *)
(* and creates a process_audio_chunk task, the stop event creates a task   *)
(* for the remaining audio, takes the final summary and cleans up.  Each   *)
(* task awaits its transcription in the default thread pool, so the tasks  *)
(* resume in any order, also after the stop event; what follows the await  *)
(* runs without another await up to the analysis and is one step.          *)
(***************************************************************************)

MaxChunks == 1

MaxCallTime == 2

CallSid == "A"

\* what Whisper returns for a chunk: None for silence, or the words spoken
Transcripts ==
    {None_, Some(<<"h","o","l","d"," ","o","n">>), Some(<<"o","k",".">>)}

\* the text classifier during one task: it answers, its predict raises, or
\* the model cannot be loaded when the detector is built
Classifier == {"ok", "predict_fails", "unavailable"}

InitCall ==
    /\ now = 0
    /\ call_states = [d \in Instances |-> <<>>]
    /\ segment_buffers = [d \in Instances |-> <<>>]
    /\ ensembles \in {e \in [{"ensemble", "improved"} ->
                               {Untrained, [is_trained |-> TRUE,
                                            optimal_threshold |-> 5000]}] :
                         e["ensemble"] = Untrained}
    /\ call = [op |-> "init"]
    /\ ret = None_
    /\ hist = [d \in Instances |-> [s \in Sids |-> <<>>]]
    /\ script = <<>>
    /\ outs = <<>>
    /\ stream = NoStream
    /\ tasks = <<>>
    /\ websockets = <<>>
    /\ frontends = NoFrontends

\* asyncio.create_task(process_audio_chunk(audio, 8000, stream_sid))
create_task(ts, transcript) == Append(ts, [state |-> "pending", transcript |-> transcript])

\* event "start"
StartEvent ==
    /\ stream.phase = "idle"
    /\ stream' = [stream EXCEPT !.phase = "started", !.recent_risk_score = 0,
                                !.current_stream_sid = CallSid,
                                !.active_calls = @ \cup {CallSid},
                                !.twilio_clients = @ \cup {CallSid}]
    /\ call' = [op |-> "start", stream_sid |-> CallSid]
    /\ ret' = None_
    /\ UNCHANGED <<now, call_states, segment_buffers, ensembles, hist, script, outs, tasks, websockets, frontends>>

\* event "media" with the payload that brings the audio buffer to 40000
\* samples: the chunk is cut and its task created
MediaEvent(transcript) ==
    /\ stream.phase = "started"
    /\ stream.cut < MaxChunks
    /\ tasks' = create_task(tasks, transcript)
    /\ stream' = [stream EXCEPT !.cut = @ + 1]
    /\ call' = [op |-> "media", stream_sid |-> CallSid]
    /\ ret' = None_
    /\ UNCHANGED <<now, call_states, segment_buffers, ensembles, hist, script, outs, websockets, frontends>>

\* event "stop": a task for the remaining audio if there is any, then
\* get_call_risk_summary and cleanup_call_detection on the module-level
\* detector
StopEvent(remaining, transcript) ==
    /\ stream.phase = "started"
    /\ tasks' = IF remaining THEN create_task(tasks, transcript) ELSE tasks
    /\ \E final_summary \in {get_call_summary(call_states["detector"], CallSid)},
          r \in {cleanup_call(call_states["detector"], segment_buffers["detector"],
                              CallSid)} :
           /\ stream' = [stream EXCEPT !.phase = "stopped",
                                       !.cut = IF remaining THEN @ + 1 ELSE @,
                                       !.final_summary = Some(final_summary),
                                       !.current_stream_sid = "None",
                                       !.active_calls = @ \ {CallSid},
                                       !.twilio_clients = @ \ {CallSid}]
           /\ ret' = final_summary
           /\ call_states' = [call_states EXCEPT !["detector"] = r.call_states]
           /\ segment_buffers' = [segment_buffers EXCEPT !["detector"] = r.segment_buffers]
    /\ hist' = [hist EXCEPT !["detector"][CallSid] = <<>>]
    /\ call' = [op |-> "stop", stream_sid |-> CallSid]
    /\ UNCHANGED <<now, ensembles, script, outs, websockets, frontends>>

\* process_audio_chunk of chunk k resumes with a transcript that is None or
\* blank: nothing is analysed
SilentChunk(k) ==
    /\ k \in DOMAIN tasks
    /\ tasks[k].state = "pending"
    /\ ~(Truthy(tasks[k].transcript) /\ Strip(tasks[k].transcript.text) # <<>>)
    /\ tasks' = [tasks EXCEPT ![k].state = "silent"]
    /\ call' = [op |-> "process_audio_chunk", stream_sid |-> CallSid, chunk |-> k]
    /\ ret' = None_
    /\ UNCHANGED <<now, call_states, segment_buffers, ensembles, hist, script, outs, stream, websockets, frontends>>

\* process_audio_chunk of chunk k resumes with words and the classifier
\* answers: analyze_with_improved_ensemble returns and recent_risk_score is
\* set to its ensemble_score
AnalysedChunk(k, m1, m2, probability, proba) ==
    /\ k \in DOMAIN tasks
    /\ tasks[k].state = "pending"
    /\ Truthy(tasks[k].transcript) /\ Strip(tasks[k].transcript.text) # <<>>
    /\ \E r \in {improved_predict(call_states["improved"], segment_buffers["improved"],
                     ensembles["improved"], tasks[k].transcript.text, CallSid, m1, m2,
                     probability, proba, now)} :
           /\ call_states' = [call_states EXCEPT !["improved"] = r.call_states]
           /\ segment_buffers' = [segment_buffers EXCEPT !["improved"] = r.segment_buffers]
           /\ hist' = [hist EXCEPT !["improved"] = HistAfterAll(@, CallSid, r.analyses)]
           /\ ret' = r.result
           /\ stream' = [stream EXCEPT !.recent_risk_score = r.result.ensemble_score,
                                       !.order = Append(@, k),
                                       !.detector_built = TRUE]
    /\ tasks' = [tasks EXCEPT ![k].state = "analysed"]
    /\ call' = [op |-> "process_audio_chunk", stream_sid |-> CallSid, chunk |-> k]
    /\ UNCHANGED <<now, ensembles, script, outs, websockets, frontends>>

\* process_audio_chunk of chunk k resumes with words and ml_model.predict
\* raises in extract_enhanced_features, after its analyze_segment call: the
\* exception leaves predict and is logged by process_audio_chunk
PredictFails(k, m) ==
    /\ k \in DOMAIN tasks
    /\ tasks[k].state = "pending"
    /\ Truthy(tasks[k].transcript) /\ Strip(tasks[k].transcript.text) # <<>>
    /\ \E r \in {extract_features(call_states["improved"], segment_buffers["improved"],
                     tasks[k].transcript.text, CallSid, m, now)} :
           /\ call_states' = [call_states EXCEPT !["improved"] = r.call_states]
           /\ segment_buffers' = [segment_buffers EXCEPT !["improved"] = r.segment_buffers]
           /\ hist' = [hist EXCEPT !["improved"] = HistAfter(@, CallSid, r)]
    /\ stream' = [stream EXCEPT !.order = Append(@, k), !.detector_built = TRUE]
    /\ tasks' = [tasks EXCEPT ![k].state = "failed"]
    /\ call' = [op |-> "process_audio_chunk", stream_sid |-> CallSid, chunk |-> k]
    /\ ret' = None_
    /\ UNCHANGED <<now, ensembles, script, outs, websockets, frontends>>

\* process_audio_chunk of chunk k resumes with words and no detector has
\* been built yet: get_improved_ensemble_detector builds one, get_model
\* raises in its constructor, and process_audio_chunk logs the exception
ModelUnavailable(k) ==
    /\ k \in DOMAIN tasks
    /\ tasks[k].state = "pending"
    /\ Truthy(tasks[k].transcript) /\ Strip(tasks[k].transcript.text) # <<>>
    /\ ~stream.detector_built
    /\ tasks' = [tasks EXCEPT ![k].state = "failed"]
    /\ call' = [op |-> "process_audio_chunk", stream_sid |-> CallSid, chunk |-> k]
    /\ ret' = None_
    /\ UNCHANGED <<now, call_states, segment_buffers, ensembles, hist, script, outs, stream, websockets, frontends>>

\* process_audio_chunk(audio_data, 8000, stream_sid) of chunk k, from its
\* await of the transcription on
ProcessAudioChunk(k) ==
    \/ SilentChunk(k)
    \/ /\ k \in DOMAIN tasks
       /\ Truthy(tasks[k].transcript)
       /\ \E i \in PredictInputs("improved", CallSid, tasks[k].transcript.text) :
             AnalysedChunk(k, i.m1, i.m2, i.probability, i.proba)
    \/ /\ k \in DOMAIN tasks
       /\ Truthy(tasks[k].transcript)
       /\ \E m \in Answers(EnsProfiles,
                           Emits("improved", CallSid, tasks[k].transcript.text)) :
             PredictFails(k, m)
    \/ ModelUnavailable(k)

\* websocket.receive_text() raises (the peer disconnected or the transport
\* failed): the receive loop is left and the endpoint returns
ReceiveError ==
    /\ stream.phase \in {"idle", "started"}
    /\ stream' = [stream EXCEPT !.phase = "closed"]
    /\ call' = [op |-> "receive_error", stream_sid |-> CallSid]
    /\ ret' = None_
    /\ UNCHANGED <<now, call_states, segment_buffers, ensembles, hist, script, outs, tasks, websockets, frontends>>

NextCall ==
    \/ Tick(MaxCallTime)
    \/ StartEvent
    \/ ReceiveError
    \/ \E transcript \in Transcripts : MediaEvent(transcript)
    \/ \E remaining \in BOOLEAN, transcript \in Transcripts :
          StopEvent(remaining, transcript)
    \/ \E k \in 1..(MaxChunks + 1) : ProcessAudioChunk(k)

SpecCall == InitCall /\ [][NextCall]_vars

\* a task is ready to resume: its transcription can return
TaskReady == \E k \in DOMAIN tasks : tasks[k].state = "pending"

\* SpecCall with time passing.  (That the event loop resumes every ready
\* task is stated with TaskReady where it is needed: every step that takes a
\* task out of "pending" is one of ProcessAudioChunk, and one is possible
\* for every pending task.)
SpecCallFair ==
    /\ SpecCall
    /\ WF_vars(Tick(MaxCallTime))

(***************************************************************************)
(* SpecStreams: two calls at overlapping times, each on its own websocket  *)
(* connection.  The connections keep their own stream_sid and audio        *)
(* buffer in websocket.state; recent_risk_score and the detector singleton *)
(* are module globals of the one process that serves both.  The clock      *)
(* stands.                                                                 *)
(***************************************************************************)

MaxStreamChunks == 2

StreamTranscripts == {Some(<<"o","k",".">>)}

\* a connection that has received no event: own_score is the ensemble_score
\* of the last analysis of the stream's own fragments (0.0 from the start
\* event on), final_score and final_band what the stop event records
NoWebsocket ==
    [phase |-> "idle", own_score |-> 0, final_score |-> 0, final_band |-> "none"]

InitStreams ==
    /\ now = 0
    /\ call_states = [d \in Instances |-> <<>>]
    /\ segment_buffers = [d \in Instances |-> <<>>]
    /\ ensembles = [d \in {"ensemble", "improved"} |-> Untrained]
    /\ call = [op |-> "init"]
    /\ ret = None_
    /\ hist = [d \in Instances |-> [s \in Sids |-> <<>>]]
    /\ script = <<>>
    /\ outs = <<>>
    /\ stream = NoStream
    /\ tasks = <<>>
    /\ websockets = [sid \in Sids |-> NoWebsocket]
    /\ frontends = NoFrontends

\* asyncio.create_task(process_audio_chunk(audio, 8000, stream_sid)) on the
\* connection of stream_sid
create_task_for(ts, stream_sid, transcript) ==
    Append(ts, [state |-> "pending", transcript |-> transcript, stream_sid |-> stream_sid])

\* the band the stop event records for a score (ten-thousandths)
final_risk_band(score) ==
    IF score >= 7000 THEN "HIGH" ELSE IF score >= 4000 THEN "MEDIUM" ELSE "LOW"

\* event "start" on the connection of stream_sid
StartOf(stream_sid) ==
    /\ websockets[stream_sid].phase = "idle"
    /\ websockets' = [websockets EXCEPT ![stream_sid].phase = "started",
                                        ![stream_sid].own_score = 0]
    /\ stream' = [stream EXCEPT !.recent_risk_score = 0,
                                !.current_stream_sid = stream_sid,
                                !.active_calls = @ \cup {stream_sid},
                                !.twilio_clients = @ \cup {stream_sid}]
    /\ call' = [op |-> "start", stream_sid |-> stream_sid]
    /\ ret' = None_
    /\ UNCHANGED <<now, call_states, segment_buffers, ensembles, hist, script, outs, tasks, frontends>>

\* event "media" on the connection of stream_sid, filling its audio buffer
MediaOf(stream_sid, transcript) ==
    /\ websockets[stream_sid].phase = "started"
    /\ Len(tasks) < MaxStreamChunks
    /\ tasks' = create_task_for(tasks, stream_sid, transcript)
    /\ call' = [op |-> "media", stream_sid |-> stream_sid]
    /\ ret' = None_
    /\ UNCHANGED <<now, call_states, segment_buffers, ensembles, hist, script, outs, stream, websockets, frontends>>

\* process_audio_chunk of task k resumes with words and the classifier
\* answers
ProcessOf(k, m1, m2, probability, proba) ==
    /\ k \in DOMAIN tasks
    /\ tasks[k].state = "pending"
    /\ \E r \in {improved_predict(call_states["improved"], segment_buffers["improved"],
                     ensembles["improved"], tasks[k].transcript.text,
                     tasks[k].stream_sid, m1, m2, probability, proba, now)} :
           /\ call_states' = [call_states EXCEPT !["improved"] = r.call_states]
           /\ segment_buffers' = [segment_buffers EXCEPT !["improved"] = r.segment_buffers]
           /\ hist' = [hist EXCEPT !["improved"] =
                          HistAfterAll(@, tasks[k].stream_sid, r.analyses)]
           /\ ret' = r.result
           /\ stream' = [stream EXCEPT !.recent_risk_score = r.result.ensemble_score,
                                       !.detector_built = TRUE]
           /\ websockets' = [websockets EXCEPT ![tasks[k].stream_sid].own_score =
                                                   r.result.ensemble_score]
    /\ tasks' = [tasks EXCEPT ![k].state = "analysed"]
    /\ call' = [op |-> "process_audio_chunk", stream_sid |-> tasks[k].stream_sid,
                chunk |-> k]
    /\ UNCHANGED <<now, ensembles, script, outs, frontends>>

\* event "stop" on the connection of stream_sid: the task for the remaining
\* audio, summary and cleanup on the module-level detector, and the final
\* score and band recorded in the database and broadcast
StopOf(stream_sid, remaining, transcript) ==
    /\ websockets[stream_sid].phase = "started"
    /\ remaining => Len(tasks) < MaxStreamChunks
    /\ tasks' = IF remaining THEN create_task_for(tasks, stream_sid, transcript) ELSE tasks
    /\ \E r \in {cleanup_call(call_states["detector"], segment_buffers["detector"],
                              stream_sid)} :
           /\ call_states' = [call_states EXCEPT !["detector"] = r.call_states]
           /\ segment_buffers' = [segment_buffers EXCEPT !["detector"] = r.segment_buffers]
    /\ hist' = [hist EXCEPT !["detector"][stream_sid] = <<>>]
    /\ websockets' = [websockets EXCEPT
                         ![stream_sid].phase = "stopped",
                         ![stream_sid].final_score = stream.recent_risk_score,
                         ![stream_sid].final_band = final_risk_band(stream.recent_risk_score)]
    /\ stream' = [stream EXCEPT !.current_stream_sid = "None",
                                !.active_calls = @ \ {stream_sid},
                                !.twilio_clients = @ \ {stream_sid}]
    /\ ret' = get_call_summary(call_states["detector"], stream_sid)
    /\ call' = [op |-> "stop", stream_sid |-> stream_sid]
    /\ UNCHANGED <<now, ensembles, script, outs, frontends>>

NextStreams ==
    \/ \E sid \in Sids : StartOf(sid)
    \/ \E sid \in Sids, transcript \in StreamTranscripts : MediaOf(sid, transcript)
    \/ \E k \in 1..MaxStreamChunks :
          /\ k \in DOMAIN tasks
          /\ \E i \in PredictInputs("improved", tasks[k].stream_sid,
                                    tasks[k].transcript.text) :
                ProcessOf(k, i.m1, i.m2, i.probability, i.proba)
    \/ \E sid \in Sids, remaining \in BOOLEAN, transcript \in StreamTranscripts :
          StopOf(sid, remaining, transcript)

SpecStreams == InitStreams /\ [][NextStreams]_vars

(***************************************************************************)
(* SpecBroadcast: broadcast_to_frontends on the event loop, with frontend   *)
(* clients connecting to and disconnecting from /notify while the          *)
(* broadcast is suspended in a send.  The coroutine gives up control only  *)
(* at `await websocket.send_json`, so one action runs it from one await to  *)
(* the next, through the header of the for loop.                           *)
(***************************************************************************)
MaxBroadcasts == 2

Clients == {"f1", "f2", "f3"}

\* what the set iterator may yield next: a client of the set not yet
\* visited, or the end of the iteration when every client registered at the
\* start has been visited (a client added meanwhile is reached or not,
\* depending on its hash slot)
NextClients(fr) ==
    LET rest == fr.connected_frontends \ fr.broadcast.visited
    IN  rest \cup (IF rest \cap fr.broadcast.registered = {} THEN {"end"} ELSE {})

\* the header `for websocket in connected_frontends`, asked for the next
\* client: the set iterator raises RuntimeError when the size of the set
\* differs from its size when the loop began; after the loop the clients
\* whose send failed are discarded
ForStep(fr, next) ==
    IF Cardinality(fr.connected_frontends) # fr.broadcast.size
    THEN [fr EXCEPT !.broadcast.phase = "raised", !.broadcast.current = "none"]
    ELSE IF next = "end"
    THEN [connected_frontends |-> fr.connected_frontends \ fr.broadcast.disconnected,
          broadcast |-> [fr.broadcast EXCEPT !.phase = "done", !.current = "none"]]
    ELSE [fr EXCEPT !.broadcast.phase = "awaiting",
                    !.broadcast.current = next,
                    !.broadcast.visited = @ \cup {next}]

\* await broadcast_to_frontends(message), up to its first send
BroadcastStart(next) ==
    /\ frontends.broadcast.phase # "awaiting"
    /\ frontends.broadcast.count < MaxBroadcasts
    /\ frontends' =
          ForStep([frontends EXCEPT
                      !.broadcast = [phase |-> "started",
                                     registered |-> frontends.connected_frontends,
                                     size |-> Cardinality(frontends.connected_frontends),
                                     visited |-> {}, current |-> "none", sent |-> {},
                                     disconnected |-> {},
                                     count |-> frontends.broadcast.count + 1]],
                  next)
    /\ call' = [op |-> "broadcast_to_frontends"]
    /\ ret' = None_
    /\ UNCHANGED <<now, call_states, segment_buffers, ensembles, hist, script, outs, stream, tasks, websockets>>

\* the send the broadcast awaits returns (ok) or raises, and the loop goes
\* on to its next send or to its end
SendReturns(ok, next) ==
    /\ frontends.broadcast.phase = "awaiting"
    /\ frontends' =
          ForStep(IF ok
                  THEN [frontends EXCEPT !.broadcast.sent = @ \cup {frontends.broadcast.current}]
                  ELSE [frontends EXCEPT !.broadcast.disconnected =
                                             @ \cup {frontends.broadcast.current}],
                  next)
    /\ call' = [op |-> "send_json", client |-> frontends.broadcast.current, ok |-> ok]
    /\ ret' = None_
    /\ UNCHANGED <<now, call_states, segment_buffers, ensembles, hist, script, outs, stream, tasks, websockets>>

\* a frontend client connects to /notify
FrontendConnects(w) ==
    /\ w \notin frontends.connected_frontends
    /\ frontends' = [frontends EXCEPT !.connected_frontends = @ \cup {w}]
    /\ call' = [op |-> "notify_frontend", client |-> w]
    /\ ret' = None_
    /\ UNCHANGED <<now, call_states, segment_buffers, ensembles, hist, script, outs, stream, tasks, websockets>>

\* the /notify endpoint of a client sees WebSocketDisconnect and discards it
FrontendDisconnects(w) ==
    /\ w \in frontends.connected_frontends
    /\ frontends' = [frontends EXCEPT !.connected_frontends = @ \ {w}]
    /\ call' = [op |-> "discard", client |-> w]
    /\ ret' = None_
    /\ UNCHANGED <<now, call_states, segment_buffers, ensembles, hist, script, outs, stream, tasks, websockets>>

NextBroadcast ==
    \/ \E next \in Clients \cup {"end"} :
          /\ next \in NextClients([frontends EXCEPT !.broadcast.visited = {},
                                                    !.broadcast.registered =
                                                        frontends.connected_frontends])
          /\ BroadcastStart(next)
    \/ \E ok \in BOOLEAN, next \in Clients \cup {"end"} :
          /\ next \in NextClients(frontends)
          /\ SendReturns(ok, next)
    \/ \E w \in Clients : FrontendConnects(w)
    \/ \E w \in Clients : FrontendDisconnects(w)

SpecBroadcast == Init /\ [][NextBroadcast]_vars

(***************************************************************************)
(* Properties                                                              *)
(***************************************************************************)
Sessions(d) == DOMAIN call_states[d]

\* the last operation was analyze_segment and it scored a sentence unit
ScoredUnit == call.op = "analyze_segment" /\ ~ret.is_buffering

\* C1: the smoothed_risk of every analyze_segment result, scored or
\* buffering, and the current_risk stored in every session's RiskState lie
\* in [0,1] (0..Scale thousandths).
C1_RiskInUnitRange ==
    /\ call.op = "analyze_segment" => ret.smoothed_risk \in 0..Scale
    /\ \A d \in Instances : \A sid \in Sessions(d) :
          call_states[d][sid].current_risk \in 0..Scale

\* a third unit has been scored and both the returned and the stored risk
\* sit at the upper end of the range
C1_Witness ==
    /\ ScoredUnit
    /\ ret.segment_count >= 3
    /\ ret.smoothed_risk = Scale
    /\ call_states["detector"][call.stream_sid].current_risk = Scale

\* the maximum of the current_risk values stored by the scored units h
RECURSIVE MaxStored(_)
MaxStored(h) ==
    IF h = <<>> THEN 0 ELSE Max(h[Len(h)].current_risk, MaxStored(SubSeq(h, 1, Len(h) - 1)))

\* C2: while a session exists its peak_risk never decreases, whatever the
\* operation, and after every step it equals the maximum of the current_risk
\* values stored in the session since it was created.
C2_PeakMonotoneAndMax ==
    [][\A sid \in StreamSids :
          /\ sid \in Sessions("detector") /\ sid \in Sessions("detector")'
                => call_states["detector"]'[sid].peak_risk
                       >= call_states["detector"][sid].peak_risk
          /\ sid \in Sessions("detector")'
                => call_states["detector"]'[sid].peak_risk
                       = MaxStored(hist["detector"][sid])']_vars

\* two units have been scored and the risk stored last is below the peak
C2_Witness ==
    \E sid \in Sessions("detector") :
        /\ Len(hist["detector"][sid]) >= 2
        /\ call_states["detector"][sid].peak_risk > call_states["detector"][sid].current_risk
        /\ call_states["detector"][sid].current_risk > 0

\* C3 (as claimed): the ensemble_score returned by either predict, trained
\* or not, lies in [0,1] (0..10000 ten-thousandths).
C3_EnsembleScoreInUnitRange ==
    call.op \in {"ensemble_predict", "improved_predict"}
        => ret.ensemble_score \in 0..(10 * Scale)

\* C4: a scored sentence unit with at least one safe-breaker match has
\* base_risk 0, whatever its high-risk and medium-risk matches.
C4_SafeBreakerOverride ==
    ScoredUnit /\ ret.safe_breaker_matches # <<>> => ret.base_risk = 0

\* a unit with several high-risk matches, a medium-risk match and a
\* safe-breaker match has been scored
C4_Witness ==
    /\ ScoredUnit
    /\ ret.safe_breaker_matches # <<>>
    /\ Len(ret.high_risk_matches) > 1
    /\ ret.medium_risk_matches # <<>>
    /\ ret.base_risk = 0

\* C5 (as claimed): when none of the units scored in a session is
\* safe-inducing, the stored risks follow s1 = b1 and
\* sk = alpha*bk + (1-alpha)*s(k-1) exactly.
C5_ExactEma ==
    \A sid \in StreamSids :
        LET h == hist["detector"][sid]
        IN  (\A k \in 1..Len(h) : ~h[k].safe)
            => /\ Len(h) >= 1 => h[1].current_risk = h[1].base_risk
               /\ \A k \in 2..Len(h) :
                     10 * h[k].current_risk
                        = ema_alpha * h[k].base_risk
                          + (10 - ema_alpha) * h[k - 1].current_risk

\* C6 (as claimed): the band reported in every analyze_segment result is the
\* band (LOW below 0.3, MEDIUM below 0.7, else HIGH) of the smoothed_risk
\* reported in the same result.
C6_BandOfReportedRisk ==
    call.op = "analyze_segment" => ret.risk_band = _get_risk_band(ret.smoothed_risk)

\* the fragment of the last analyze_segment call, normalized
Normalized == _clean_text(call.text)

\* C7: an analyze_segment call whose fragment, normalized, is longer than
\* 150 characters or has more than 5 words returns a sentence unit in that
\* call, whatever the buffer held before.
C7_LongFragmentEmits ==
    call.op = "analyze_segment"
    /\ (Len(Normalized) > ForceFlushChars \/ Len(Split(Normalized)) > ForceFlushWords)
        => ~ret.is_buffering /\ ret.segment # <<>>

\* a six-word fragment arrived on a buffer that already held text and a
\* sentence came back
C7_Witness ==
    /\ ScoredUnit
    /\ Len(Split(Normalized)) > ForceFlushWords
    /\ Len(Normalized) <= ForceFlushChars
    /\ Len(Split(ret.segment)) > Len(Split(Normalized))

Example ==
    << <<"t","h","i","s"," ","i","s"," ","t","h","e">>,
       <<"i","r","s"," ","c","a","l","l","i","n","g">>,
       <<"a","b","o","u","t"," ","y","o","u","r"," ","t","a","x"," ","d","e","b","t",".">> >>

\* the first three fragments fed were the example's, in order
ExampleFed ==
    Len(outs) >= 3 /\ \A k \in 1..3 : outs[k].text = Example[k]

\* C8 (as claimed): on a fresh session the example's first two calls return
\* no sentence and the third emits the three fragments joined by spaces.
C8_ThirdCallEmitsAll ==
    ExampleFed
        => /\ outs[1].sentence = None_
           /\ outs[2].sentence = None_
           /\ outs[3].sentence = Some(Join(Example))

\* C8 (amended): the first call returns no sentence, the second emits the
\* five words buffered so far, and the third emits the last fragment alone.
C8_SecondCallFlushes ==
    ExampleFed
        => /\ outs[1].sentence = None_
           /\ outs[2].sentence = Some(Join(SubSeq(Example, 1, 2)))
           /\ outs[3].sentence = Some(Example[3])

C8_Witness ==
    /\ ExampleFed
    /\ outs[2].sentence = Some(Join(SubSeq(Example, 1, 2)))
    /\ outs[3].sentence = Some(Example[3])

\* the buffer of the session has nothing pending, or less than
\* max_buffer_time has passed since the last arrival
Idle(sid) ==
    LET b == segment_buffers["detector"][sid]
    IN  b.buffer = <<>> \/ now - b.last_add_time < b.max_buffer_time

\* C9: check_timeout on a buffer with nothing pending, or with fragments
\* pending for less than max_buffer_time, returns no sentence and changes
\* nothing of the buffer.
C9_IdleTimeoutIsNoOp ==
    [][\A sid \in StreamSids :
          CheckTimeout(sid) /\ Idle(sid)
              => ret' = None_ /\ segment_buffers' = segment_buffers]_vars

\* check_timeout has just returned nothing for a buffer with a fragment
\* pending for less than max_buffer_time
C9_Witness ==
    /\ call.op = "check_timeout"
    /\ ret = None_
    /\ segment_buffers["detector"][call.stream_sid].buffer # <<>>
    /\ now - segment_buffers["detector"][call.stream_sid].last_add_time
          < DefaultMaxBufferTime
    /\ now > segment_buffers["detector"][call.stream_sid].last_add_time

\* C10 (as claimed): a sentence flushed by check_timeout is scored: the
\* session's segment_count grows by one and the call's state is updated.
C10_TimeoutFlushIsScored ==
    [][\A sid \in StreamSids :
          CheckTimeout(sid) /\ Truthy(ret')
              => call_states["detector"]'[sid].segment_count
                    = call_states["detector"][sid].segment_count + 1]_vars

\* C12: a predict call of an ensemble detector (analyze_with_ensemble,
\* analyze_with_improved_ensemble) ingests its fragment once: the session's
\* segment_count rises by at most 1 and at most one sentence unit is scored
\* for it in the call.
C12_PredictIngestsOnce ==
    [][\A d \in {"ensemble", "improved"}, sid \in StreamSids :
          call'.op \in {"ensemble_predict", "improved_predict"}
              => /\ sid \in DOMAIN call_states'[d]
                    => call_states'[d][sid].segment_count <= Scored(d, sid) + 1
                 /\ Len(hist'[d][sid]) <= Len(hist[d][sid]) + 1]_vars

\* the RiskState and SegmentBuffer instance d holds for sid, in state
\* (states, buffers); absent when the dict has no such key
Held(states, buffers, sid) ==
    [state |-> IF sid \in DOMAIN states THEN Some(states[sid]) ELSE None_,
     buffer |-> IF sid \in DOMAIN buffers THEN Some(buffers[sid]) ELSE None_]

\* the last operation was invoked on the module-level detector for sid
InvokedFor(c, sid) ==
    c.op \in {"analyze_segment", "get_call_summary", "cleanup_call"} /\ c.stream_sid = sid

\* C13: an analyze_segment, get_call_summary or cleanup_call invoked for one
\* session leaves the RiskState and the SegmentBuffer of every other session
\* as they were (present or absent, and equal), in every interleaving of the
\* operations of the two sessions.
C13_SessionsIndependent ==
    [][\A a \in Sids, b \in Sids :
          (a # b /\ InvokedFor(call', a))
              => Held(call_states'["detector"], segment_buffers'["detector"], b)
                    = Held(call_states["detector"], segment_buffers["detector"], b)]_vars

\* session B has scored a unit and has a fragment pending while session A
\* is cleaned up
C13_Witness ==
    /\ call.op = "cleanup_call" /\ call.stream_sid = "A"
    /\ "B" \in DOMAIN call_states["detector"]
    /\ call_states["detector"]["B"].segment_count > 0
    /\ call_states["detector"]["B"].current_risk > 0
    /\ segment_buffers["detector"]["B"].buffer # <<>>

\* the SegmentBuffer a new session has after its first fragment
FreshBuffer(text, t) == add_fragment(SegmentBuffer, text, t)

\* the module-level detector holds nothing for sid
Absent(states, buffers, sid) == sid \notin DOMAIN states /\ sid \notin DOMAIN buffers

\* C14: an analyze_segment for an identifier without state (never seen, or
\* cleaned up before) creates one RiskState and one SegmentBuffer for it and
\* works from the all-zero RiskState and the empty buffer: the buffer is
\* what the fragment alone leaves, segment_count is 1 if the fragment was
\* scored and 0 otherwise, peak_risk is the risk of this fragment;
\* cleanup_call removes the identifier from both stores; and the two stores
\* always hold the same identifiers.
C14_SessionLifecycle ==
    [][\A sid \in StreamSids :
          /\ DOMAIN call_states'["detector"] = DOMAIN segment_buffers'["detector"]
          /\ (call'.op = "cleanup_call" /\ call'.stream_sid = sid)
                => Absent(call_states'["detector"], segment_buffers'["detector"], sid)
          /\ (/\ call'.op = "analyze_segment" /\ call'.stream_sid = sid
              /\ Absent(call_states["detector"], segment_buffers["detector"], sid))
                => /\ ~Absent(call_states'["detector"], segment_buffers'["detector"], sid)
                   /\ segment_buffers'["detector"][sid] = FreshBuffer(call'.text, now).buf
                   /\ ret'.is_buffering = ~Truthy(FreshBuffer(call'.text, now).ret)
                   /\ LET state == call_states'["detector"][sid]
                      IN  IF ret'.is_buffering THEN state = RiskState
                          ELSE /\ state.segment_count = 1
                               /\ state.peak_risk = state.current_risk
                               /\ state.current_risk = ret'.smoothed_risk
                               /\ state.last_update = now]_vars

\* a session whose only scored unit so far has a risk above 0 and was
\* scored after the clock had advanced
C14_Witness ==
    /\ call.op = "analyze_segment" /\ call.stream_sid = "A"
    /\ "A" \in DOMAIN call_states["detector"]
    /\ call_states["detector"]["A"].segment_count = 1
    /\ call_states["detector"]["A"].peak_risk > 0
    /\ call_states["detector"]["A"].last_update > 0
    /\ hist["detector"]["A"] # <<>>

\* C17: get_call_summary for an identifier without RiskState returns the
\* error value {"error": "Call not found"} and cleanup_call for an
\* identifier without state returns normally; both leave the RiskStates and
\* SegmentBuffers of all sessions as they were.
C17_UnknownIdIsNoOp ==
    [][\A sid \in Sids :
          /\ (/\ call'.op = "get_call_summary" /\ call'.stream_sid = sid
              /\ sid \notin DOMAIN call_states["detector"])
                => /\ ret' = [error |-> "Call not found"]
                   /\ call_states'["detector"] = call_states["detector"]
                   /\ segment_buffers'["detector"] = segment_buffers["detector"]
          /\ (/\ call'.op = "cleanup_call" /\ call'.stream_sid = sid
              /\ Absent(call_states["detector"], segment_buffers["detector"], sid))
                => /\ ret' = None_
                   /\ call_states'["detector"] = call_states["detector"]
                   /\ segment_buffers'["detector"] = segment_buffers["detector"]]_vars

\* the summary of the unknown session A was asked for while session B had a
\* scored unit
C17_Witness ==
    /\ call.op = "get_call_summary" /\ call.stream_sid = "A"
    /\ "A" \notin DOMAIN call_states["detector"]
    /\ ret = [error |-> "Call not found"]
    /\ "B" \in DOMAIN call_states["detector"]
    /\ call_states["detector"]["B"].segment_count > 0

\* the last fragment handed to analyze_segment is empty once normalized
EmptyFragment(c) == c.op = "analyze_segment" /\ _clean_text(c.text) = <<>>

\* C20 (as stated): an analyze_segment whose fragment is empty once
\* normalized returns no sentence and changes neither the RiskStates nor the
\* SegmentBuffers, and the set of sessions stays as it was.
C20_EmptyFragmentChangesNothing ==
    [][EmptyFragment(call')
          => /\ ret'.is_buffering
             /\ call_states'["detector"] = call_states["detector"]
             /\ segment_buffers'["detector"] = segment_buffers["detector"]]_vars

\* C20 (amended): an analyze_segment whose fragment is empty once normalized
\* returns no sentence; for a session that exists it leaves the buffer, the
\* last arrival time and the RiskState as they were; for an identifier
\* without state it creates the session, with the all-zero RiskState and
\* the empty SegmentBuffer.
C20_EmptyFragmentKeepsOrCreates ==
    [][EmptyFragment(call')
          => /\ ret'.is_buffering
             /\ IF call'.stream_sid \in DOMAIN call_states["detector"]
                THEN /\ call_states'["detector"] = call_states["detector"]
                     /\ segment_buffers'["detector"] = segment_buffers["detector"]
                ELSE /\ call_states'["detector"]
                            = Put(call_states["detector"], call'.stream_sid, RiskState)
                     /\ segment_buffers'["detector"]
                            = Put(segment_buffers["detector"], call'.stream_sid,
                                  SegmentBuffer)]_vars

\* a whitespace-only fragment arrived for a session that had a fragment
\* pending from an earlier time and a scored unit
C20_Witness ==
    /\ EmptyFragment(call)
    /\ call.stream_sid \in DOMAIN segment_buffers["detector"]
    /\ segment_buffers["detector"][call.stream_sid].buffer # <<>>
    /\ segment_buffers["detector"][call.stream_sid].last_add_time < now
    /\ call_states["detector"][call.stream_sid].segment_count > 0

\* the detector that ingests the stream's fragments holds text of the call
\* that has not been emitted
PendingFragment ==
    /\ CallSid \in DOMAIN segment_buffers["improved"]
    /\ segment_buffers["improved"][CallSid].buffer # <<>>

\* the pending text has waited for max_buffer_time or longer
TimedOut ==
    LET b == segment_buffers["improved"][CallSid]
    IN  now - b.last_add_time >= b.max_buffer_time

\* C11: provided that every ready task is resumed (again and again no task
\* is left ready) and time passes, whenever text ingested for the call is
\* pending in its SegmentBuffer and max_buffer_time has elapsed since the
\* last fragment, the buffer is later emptied by an emission while the
\* session exists, even when no further fragment arrives.
C11_NoFragmentBufferedForever ==
    ([]<>(~TaskReady))
        => ((PendingFragment /\ TimedOut)
               ~> (/\ CallSid \in DOMAIN segment_buffers["improved"]
                   /\ segment_buffers["improved"][CallSid].buffer = <<>>))

\* C15: the final summary the stop event obtains for the stream reports what
\* the stream's fragments accumulated: when units were scored for the stream
\* it is not the "Call not found" value, and its segment_count, current_risk
\* and peak_risk are those of the RiskState the fragments were scored into.
C15_FinalSummaryReportsCall ==
    [][(call'.op = "stop" /\ Scored("improved", CallSid) > 0)
          => /\ ret' # [error |-> "Call not found"]
             /\ ret' = get_call_summary(call_states["improved"], CallSid)
             /\ ret'.segment_count = Len(hist["improved"][CallSid])]_vars

\* C16: once the stop event has been handled, the detector that ingested the
\* stream's fragments holds neither a RiskState nor a SegmentBuffer for it.
C16_NoStateAfterStop ==
    stream.phase = "stopped"
        => Absent(call_states["improved"], segment_buffers["improved"], CallSid)

\* C18: the chunks of the stream are ingested in the order they were cut.
C18_IngestedInChunkOrder ==
    \A i \in 1..Len(stream.order), j \in 1..Len(stream.order) :
        i < j => stream.order[i] < stream.order[j]

\* C19: every task whose transcript has words ends with an analysis result,
\* also when the classifier is unavailable or its predict call fails: no
\* task ends with its analysis dropped.
C19_ResultWithoutClassifier ==
    \A k \in DOMAIN tasks : tasks[k].state # "failed"

\* the RiskState instance "detector" holds for sid, all zero if it has none
StateOf(states, sid) == IF sid \in DOMAIN states THEN states[sid] ELSE RiskState

\* C21: an analyze_segment that produces no sentence unit leaves the
\* session's RiskState as it was (the all-zero RiskState for a session the
\* call created) and reports it: smoothed_risk is the stored current_risk,
\* the band is the band of that value, segment_count is the stored count,
\* base_risk is 0 and is_buffering is true.
C21_BufferingReportsLastState ==
    [][(call'.op = "analyze_segment" /\ ret'.is_buffering)
          => LET before == StateOf(call_states["detector"], call'.stream_sid)
                 band == IF before.current_risk < 300 THEN "LOW"
                         ELSE IF before.current_risk < 700 THEN "MEDIUM" ELSE "HIGH"
             IN  /\ call_states'["detector"][call'.stream_sid] = before
                 /\ ret'.smoothed_risk = before.current_risk
                 /\ ret'.risk_band = band
                 /\ ret'.segment_count = before.segment_count
                 /\ ret'.base_risk = 0]_vars

\* a fragment was buffered for a session whose current risk is above 0 and
\* below its peak
C21_Witness ==
    /\ call.op = "analyze_segment" /\ ret.is_buffering
    /\ ret.smoothed_risk > 0
    /\ call_states["detector"][call.stream_sid].peak_risk > ret.smoothed_risk
    /\ call_states["detector"][call.stream_sid].safe_segments_since_risk > 0

\* the last operation scored a safe sentence unit (safe-breaker matched or
\* base_risk below 0.1)
SafeUnit(c, r) ==
    /\ c.op = "analyze_segment" /\ ~r.is_buffering
    /\ (r.safe_breaker_matches # <<>> \/ r.base_risk < 100)

\* C22: a safe sentence unit scored for a session whose stored current_risk
\* is above 0 stores a current_risk strictly smaller than the one before.
C22_SafeUnitsStrictlyDecrease ==
    [][\A sid \in StreamSids :
          (/\ SafeUnit(call', ret') /\ call'.stream_sid = sid
           /\ sid \in DOMAIN call_states["detector"]
           /\ call_states["detector"][sid].current_risk > 0)
             => call_states'["detector"][sid].current_risk
                   < call_states["detector"][sid].current_risk]_vars

\* a run of safe units has brought a risk that was above 0 down to 0
C22_Witness ==
    /\ SafeUnit(call, ret)
    /\ call_states["detector"][call.stream_sid].current_risk = 0
    /\ call_states["detector"][call.stream_sid].peak_risk > 0
    /\ call_states["detector"][call.stream_sid].safe_segments_since_risk >= 5

\* C23: the final score and band recorded at the stop event of a stream are
\* the ensemble score last computed from that stream's own fragments (0.0 if
\* none was analysed since its start) and the band of that score, whatever
\* the events of the other stream in between.
C23_FinalScoreIsOwnScore ==
    [][\A sid \in Sids :
          (call'.op = "stop" /\ call'.stream_sid = sid)
             => /\ websockets'[sid].final_score = websockets[sid].own_score
                /\ websockets'[sid].final_band
                      = final_risk_band(websockets[sid].own_score)]_vars

\* base_risk for h high-risk and m medium-risk matches and no safe-breaker
\* match, as the formula states it (thousandths)
BaseRiskFormula(h, m) ==
    LET high_score == IF 400 * h < 1000 THEN 400 * h ELSE 1000
        medium_score == IF 200 * m < 600 THEN 200 * m ELSE 600
        larger == IF high_score >= medium_score THEN high_score ELSE medium_score
    IN  IF h > 1 THEN (IF larger + 200 < 1000 THEN larger + 200 ELSE 1000) ELSE larger

\* C24: without safe-breaker match, _calculate_base_risk returns
\* max(min(0.4h, 1.0), min(0.2m, 0.6)), raised by 0.2 and capped at 1.0 when
\* h > 1; the result lies in [0,1] and no smaller h or m gives a larger one.
C24_BaseRiskFormula ==
    (call.op = "_calculate_base_risk" /\ call.safe = 0)
        => /\ ret = BaseRiskFormula(call.high, call.medium)
           /\ ret \in 0..Scale
           /\ \A h \in 0..call.high, m \in 0..call.medium :
                 _calculate_base_risk(MatchList(h), MatchList(m), <<>>) <= ret

\* two high-risk and three medium-risk matches: the boost applies and the
\* cap is reached
C24_Witness ==
    /\ call.op = "_calculate_base_risk"
    /\ call.high = 2 /\ call.medium = 3 /\ call.safe = 0
    /\ ret = Scale

\* the number of consecutive safe units at the end of the units scored
RECURSIVE TrailingSafe(_)
TrailingSafe(h) ==
    IF h = <<>> \/ ~h[Len(h)].safe THEN 0
    ELSE 1 + TrailingSafe(SubSeq(h, 1, Len(h) - 1))

\* the EMA value of a unit with the given base risk, ten-thousandths
EmaValue(before, base_risk) ==
    IF before.segment_count = 0 THEN 10 * base_risk
    ELSE ema_alpha * base_risk + (10 - ema_alpha) * before.current_risk

\* x * (1 - decay_rate)^k reported to three decimals, either way on a tie
Decayed(x, k) == {Round3(ExactRisk(x, Scale - decay_rate, k), up) : up \in BOOLEAN}

\* C25: the safe streak stored for a session is the number of consecutive
\* safe units (safe-breaker matched or base_risk below 0.1) at the end of the
\* units scored for it: a safe unit raises it by 1 and reports the EMA value
\* times (1 - decay_rate)^min(streak, 5), a unit that is not safe resets it
\* to 0 and reports the EMA value without decay, and a buffering result
\* leaves it as it was.
C25_SafeStreak ==
    [][\A sid \in StreamSids :
          (call'.op = "analyze_segment" /\ call'.stream_sid = sid)
             => LET before == StateOf(call_states["detector"], sid)
                    after == call_states'["detector"][sid]
                    streak == before.safe_segments_since_risk
                IN  /\ after.safe_segments_since_risk
                          = TrailingSafe(hist'["detector"][sid])
                    /\ IF ret'.is_buffering
                       THEN after.safe_segments_since_risk = streak
                       ELSE IF SafeUnit(call', ret')
                       THEN /\ after.safe_segments_since_risk = streak + 1
                            /\ after.current_risk
                                  \in Decayed(EmaValue(before, ret'.base_risk),
                                              IF streak + 1 < 5 THEN streak + 1 ELSE 5)
                       ELSE /\ after.safe_segments_since_risk = 0
                            /\ after.current_risk
                                  \in Decayed(EmaValue(before, ret'.base_risk), 0)]_vars

\* a seventh safe unit in a row was scored while the risk was still above 0,
\* after a unit that was not safe
C25_Witness ==
    /\ SafeUnit(call, ret)
    /\ call_states["detector"][call.stream_sid].safe_segments_since_risk = 7
    /\ call_states["detector"][call.stream_sid].segment_count > 8
    /\ ret.smoothed_risk > 0

\* C26: the result of a predict without trained fusion model has
\* ensemble_score = 0.6 * advanced_score + 0.4 * ml_score, and its band and
\* prediction are HIGH/"scam" from 0.7, MEDIUM/"suspicious" from 0.4 and
\* LOW/"safe" below, which is also the band the stop event records for the
\* same score.
C26_FixedWeightsAndBands ==
    (call.op \in {"ensemble_predict", "improved_predict"} /\ ~ret.is_trained)
        => /\ ret.ensemble_score = 6 * ret.advanced_score + 4 * ret.ml_score
           /\ ret.risk_band = final_risk_band(ret.ensemble_score)
           /\ ret.prediction = (IF ret.ensemble_score >= 7000 THEN "scam"
                                ELSE IF ret.ensemble_score >= 4000 THEN "suspicious"
                                ELSE "safe")

\* the stored SegmentBuffer of the module-level detector for sid, the fresh
\* one if the session does not exist
BufferOf(buffers, sid) == IF sid \in DOMAIN buffers THEN buffers[sid] ELSE SegmentBuffer

\* the text accumulated once the fragment of the call is appended
Accumulated(buffers, c) ==
    Join([k \in 1..Len(BufferOf(buffers, c.stream_sid).buffer) + 1 |->
            IF k <= Len(BufferOf(buffers, c.stream_sid).buffer)
            THEN BufferOf(buffers, c.stream_sid).buffer[k][1]
            ELSE _clean_text(c.text)])

\* 1-based position of the last '.', '!' or '?' of the text, 0 if none
LastMark(text) ==
    IF \E k \in 1..Len(text) : text[k] \in {".", "!", "?"}
    THEN CHOOSE k \in 1..Len(text) :
            /\ text[k] \in {".", "!", "?"}
            /\ \A j \in (k + 1)..Len(text) : text[j] \notin {".", "!", "?"}
    ELSE 0

\* the step is an analyze_segment of a fragment that is not empty once cleaned
Ingests(c, t, t2) == c.op = "analyze_segment" /\ t2 = t /\ _clean_text(c.text) # <<>>

\* C27: when the accumulated text holds a '.', '!' or '?', and the trimmed
\* prefix up to and including the last of these marks (whichever mark it is)
\* has at least min_segment_length characters, the ingest emits that prefix.
C27_CutsAtLastMarkOfAny ==
    [][Ingests(call', now, now')
          => \A text \in {Accumulated(segment_buffers["detector"], call')} :
                (/\ LastMark(text) > 0
                 /\ Len(Strip(SubSeq(text, 1, LastMark(text))))
                        >= DefaultMinSegmentLength)
                    => /\ ~ret'.is_buffering
                       /\ ret'.segment = Strip(SubSeq(text, 1, LastMark(text)))]_vars

\* no punctuation boundary exists in the text
NoPunctuation(text) == LastMark(text) = 0

\* the 1-based indices i at which words i, i+1 of the text form a discourse-
\* marker bigram
MarkerAt(words) ==
    { i \in 1..(Len(words) - 1) : Join(SubSeq(words, i, i + 1)) \in speech_boundaries }

\* C28: when an ingest finds no punctuation mark and emits at a speech
\* boundary (not a forced flush of the whole text), the emitted sentence is
\* the words before some marker bigram of the accumulated text, without
\* either word of the bigram, it has at least 3 words, and the buffer then
\* starts with the two marker words.
C28_EmitsWordsBeforeMarker ==
    [][Ingests(call', now, now')
          => \A text \in {Accumulated(segment_buffers["detector"], call')} :
                (/\ NoPunctuation(text)
                 /\ MarkerAt(Split(Lower(text))) # {}
                 /\ ~ret'.is_buffering
                 /\ ret'.segment # Strip(text))
                    => \E i \in MarkerAt(Split(Lower(text))) :
                          /\ i - 1 >= 3
                          /\ ret'.segment = Join(SubSeq(Split(Lower(text)), 1, i - 1))
                          /\ Split(segment_buffers'["detector"][call'.stream_sid]
                                      .current_sentence)
                                = SubSeq(Split(text), i, Len(Split(text)))]_vars

\* the single-space join of the texts held in the buffer
JoinedTexts(b) == Join([k \in 1..Len(b.buffer) |-> b.buffer[k][1]])

\* the invariant of one SegmentBuffer
Coherent(b) ==
    /\ b.current_sentence = JoinedTexts(b)
    /\ (b.buffer = <<>>) <=> (b.current_sentence = <<>>)

\* C29: between operations, current_sentence of every SegmentBuffer is the
\* single-space join of the texts in its buffer, both empty together; and an
\* ingest or check_timeout whose emission is the whole accumulated text
\* leaves both empty.
C29_SentenceIsJoinOfBuffer ==
    [][/\ \A sid \in DOMAIN segment_buffers'["detector"] :
             Coherent(segment_buffers'["detector"][sid])
       /\ Ingests(call', now, now')
             => \A text \in {Accumulated(segment_buffers["detector"], call')} :
                   (~ret'.is_buffering /\ ret'.segment = Strip(text))
                       => /\ segment_buffers'["detector"][call'.stream_sid].buffer = <<>>
                          /\ segment_buffers'["detector"][call'.stream_sid]
                                .current_sentence = <<>>
       /\ (call'.op = "check_timeout" /\ now' = now /\ Truthy(ret'))
             => /\ ret'.text = Strip(segment_buffers["detector"][call'.stream_sid]
                                        .current_sentence)
                /\ segment_buffers'["detector"][call'.stream_sid].buffer = <<>>
                /\ segment_buffers'["detector"][call'.stream_sid].current_sentence
                      = <<>>]_vars

\* a sentence was cut out of a buffer of several fragments and the words
\* after it stay, as one pending text
C29_Witness ==
    /\ call.op = "analyze_segment"
    /\ ~ret.is_buffering
    /\ Len(Split(ret.segment)) >= 3
    /\ segment_buffers["detector"][call.stream_sid].buffer # <<>>
    /\ Coherent(segment_buffers["detector"][call.stream_sid])

\* no punctuation or speech boundary fires on the accumulated text
NoBoundary(b, text) ==
    ~_extract_complete_sentence([b EXCEPT !.current_sentence = text]).some

\* C30: an ingest into a buffer that holds pending text, more than
\* max_buffer_time after the previous fragment arrived and with no
\* punctuation or speech boundary, emits the whole accumulated text (old
\* text and new fragment) and leaves the buffer empty, whatever the number
\* of words and characters.
C30_LateFragmentFlushes ==
    [][Ingests(call', now, now')
          => \A b \in {BufferOf(segment_buffers["detector"], call'.stream_sid)},
                text \in {Accumulated(segment_buffers["detector"], call')} :
                (/\ b.buffer # <<>>
                 /\ now - b.last_add_time > b.max_buffer_time
                 /\ NoBoundary(b, text))
                    => /\ ~ret'.is_buffering
                       /\ ret'.segment = Strip(text)
                       /\ segment_buffers'["detector"][call'.stream_sid].buffer = <<>>]_vars

\* the segment_count stored for sid, 0 for an identifier without state
CountOf(states, sid) == IF sid \in DOMAIN states THEN states[sid].segment_count ELSE 0

\* C31: segment_count of a session is the number of sentence units scored
\* for it so far; a scored result reports and stores the count before plus
\* one, so successive scored results report 1, 2, 3, ...; a buffering result
\* reports the stored count and leaves it as it was.
C31_SegmentCountCountsScoredUnits ==
    [][/\ \A sid \in StreamSids :
             CountOf(call_states'["detector"], sid) = Len(hist'["detector"][sid])
       /\ call'.op = "analyze_segment"
             => \A before \in {CountOf(call_states["detector"], call'.stream_sid)} :
                   /\ ret'.segment_count
                         = CountOf(call_states'["detector"], call'.stream_sid)
                   /\ IF ret'.is_buffering
                      THEN ret'.segment_count = before
                      ELSE ret'.segment_count = before + 1]_vars

\* a fourth unit has been scored for a session, after a fragment was buffered
C31_Witness ==
    /\ ScoredUnit
    /\ ret.segment_count = 4
    /\ Len(Split(ret.segment)) > 2
    /\ call_states["detector"][call.stream_sid].segment_count = 4

\* the result of the matcher reports the keyword
Reported(matches, keyword) == \E k \in 1..Len(matches) : matches[k].keyword = keyword

\* the effective threshold of a keyword matched under a tier
TierThreshold(tier, keyword) ==
    IF tier = "safe_breakers" THEN 85
    ELSE IF tier = "high_risk" THEN HighRiskThreshold(Lower(keyword))
    ELSE fuzzy_threshold

\* the matcher was called with a tier list on a text that is not empty
Matched == call.op = "_fuzzy_keyword_match" /\ call.text # <<>>

\* the keyword is a single word of the high-risk tier
SingleHighRisk(tier, keyword) == tier = "high_risk" /\ Len(Split(Lower(keyword))) = 1

\* C32: a single-word high-risk keyword whose phrase-level score reaches its
\* threshold is reported exactly when a word of the sentence has similarity
\* >= 60 to it or the phrase-level score is >= 85; a multi-word high-risk
\* keyword and a keyword of another tier is reported whenever its score
\* reaches the threshold, whatever the word-level similarity.
C32_WordTestForSingleHighRiskOnly ==
    Matched
        => \A keyword \in Elements(call.keywords[call.tier]) :
              \A score \in {call.fuzz.partial_ratio[keyword]} :
                 score >= TierThreshold(call.tier, keyword)
                    => IF SingleHighRisk(call.tier, keyword)
                       THEN Reported(ret, keyword)
                               <=> (call.fuzz.ratio[keyword] >= 60 \/ score >= 85)
                       ELSE Reported(ret, keyword)

\* in one high-risk call no word of the sentence is close to either keyword
\* and both scores lie between the threshold and 85: the single word is
\* dropped and the two-word phrase is reported
C32_Witness ==
    /\ Matched
    /\ call.tier = "high_risk"
    /\ \A keyword \in Elements(call.keywords.high_risk) :
          /\ call.fuzz.ratio[keyword] < 60
          /\ call.fuzz.partial_ratio[keyword] = 84
    /\ ~Reported(ret, <<"o","t","p">>)
    /\ Reported(ret, <<"t","a","x"," ","d","e","b","t">>)

\* C33: a phrase is reported iff its score is >= the effective threshold of
\* the tier the caller passed (85 safe-breaker, 65 or 60 high-risk, 75
\* medium-risk), also when two tiers hold equal phrase lists; a single-word
\* high-risk keyword must pass the word-level test as well.
C33_ThresholdOfPassedTier ==
    Matched
        => \A keyword \in Elements(call.keywords[call.tier]) :
              \A score \in {call.fuzz.partial_ratio[keyword]} :
                 Reported(ret, keyword)
                    <=> /\ score >= TierThreshold(call.tier, keyword)
                        /\ SingleHighRisk(call.tier, keyword)
                              => (call.fuzz.ratio[keyword] >= 60 \/ score >= 85)

\* the words held by the buffer of sid, none for an identifier without state
WordsOf(buffers, sid) == Split(BufferOf(buffers, sid).current_sentence)

\* C34: every ingest and every check_timeout conserves the text: the words
\* of the emitted sentence (if any) followed by the words left in the buffer
\* are the words that were pending followed by the words of the normalized
\* fragment, in order, so that nothing is lost, duplicated or emitted twice.
C34_TextConserved ==
    [][/\ Ingests(call', now, now')
             => \A text \in {Accumulated(segment_buffers["detector"], call')} :
                   (IF ret'.is_buffering THEN <<>> ELSE Split(ret'.segment))
                         \o WordsOf(segment_buffers'["detector"], call'.stream_sid)
                      = Split(text)
       /\ (call'.op = "check_timeout" /\ now' = now)
             => (IF ret'.some THEN Split(ret'.text) ELSE <<>>)
                   \o WordsOf(segment_buffers'["detector"], call'.stream_sid)
                = WordsOf(segment_buffers["detector"], call'.stream_sid)]_vars

\* C35: after every ingest the text left pending in the buffer has fewer
\* than 5 words and at most 150 characters, also when it is the remainder
\* behind a sentence emitted at a punctuation or speech boundary.
C35_PendingTextIsShort ==
    [][Ingests(call', now, now')
          => \A b \in {segment_buffers'["detector"][call'.stream_sid]} :
                /\ Len(Split(b.current_sentence)) < ForceFlushWords
                /\ Len(b.current_sentence) <= ForceFlushChars]_vars

\* C36: every process_audio_chunk task of the stream has performed its
\* analysis when the stop event runs cleanup, the task of the remaining
\* audio included, and once the stop event has been handled no step creates
\* or updates detector state (RiskState, SegmentBuffer) for the stream.
C36_NoIngestAfterTeardown ==
    [][/\ (stream.phase = "started" /\ stream'.phase = "stopped")
             => \A k \in DOMAIN tasks' : tasks'[k].state # "pending"
       /\ stream.phase = "stopped"
             => \A d \in Instances :
                   Held(call_states'[d], segment_buffers'[d], CallSid)
                      = Held(call_states[d], segment_buffers[d], CallSid)]_vars

\* nothing of the stream is registered in main.py or held by the
\* module-level detector
Released(sid) ==
    /\ stream.current_stream_sid = "None"
    /\ sid \notin stream.active_calls
    /\ sid \notin stream.twilio_clients
    /\ Absent(call_states["detector"], segment_buffers["detector"], sid)

\* C37: when the media websocket of a started stream has ended, by a stop
\* event or by a receive error or disconnect, the stream is torn down: its
\* detector state, its audio-bridge registration, its active_calls entry and
\* current_stream_sid are released.
C37_TornDownHoweverItEnds ==
    stream.phase \in {"stopped", "closed"} => Released(CallSid)

\* C38: whatever clients connect or disconnect while a broadcast awaits a
\* send, the broadcast does not fail, and when it has completed every client
\* registered at its start was sent the message or had its send fail.
C38_BroadcastSurvivesRegistryChanges ==
    /\ frontends.broadcast.phase # "raised"
    /\ frontends.broadcast.phase = "done"
          => frontends.broadcast.registered
                \subseteq (frontends.broadcast.sent \cup frontends.broadcast.disconnected)

====
